---- MODULE Spec2Model ----
(***************************************************************************)
(* Ry_TSDB: the write path (WAL + MemTable), the background flush to an    *)
(* SSTable, crash recovery and the read merge of SimpleTSDB (src/db.rs),   *)
(* with the WAL record format of src/wal.rs.                               *)
(*                                                                         *)
(* Representation.  A u64 (a Timestamp, or the bit pattern of an f64) is   *)
(* four 16-bit limbs, least significant first, so that neither byte order  *)
(* is the identity.  A Rust String is the sequence of its UTF-8 bytes.  A  *)
(* HashMap is a function on the set of its keys; the order in which a      *)
(* HashMap is iterated is not fixed by Rust and is chosen by \E.           *)
(***************************************************************************)
EXTENDS Integers, Sequences, FiniteSets, TLC

(***************************************************************************)
(* Bounds of the model.                                                    *)
(***************************************************************************)
MaxWrites == 2
MaxQueries == 1
MaxCrashes == 1
MaxIoErrors == 1
Threshold == 2

(***************************************************************************)
(* Integers and bytes.                                                     *)
(***************************************************************************)
Limb == 65536
U32Huge == 2147483647

U64Of(n) == <<n % Limb, (n \div Limb) % Limb, 0, 0>>

\* u64::to_be_bytes / f64::to_be_bytes
u64_to_be_bytes(x) ==
    << x[4] \div 256, x[4] % 256, x[3] \div 256, x[3] % 256,
       x[2] \div 256, x[2] % 256, x[1] \div 256, x[1] % 256 >>

\* u64::from_be_bytes: the inverse of u64_to_be_bytes
u64_from_be_bytes(b) ==
    << b[7] * 256 + b[8], b[5] * 256 + b[6], b[3] * 256 + b[4], b[1] * 256 + b[2] >>

\* u64::from_le_bytes / f64::from_le_bytes
u64_from_le_bytes(b) ==
    << b[1] + 256 * b[2], b[3] + 256 * b[4], b[5] + 256 * b[6], b[7] + 256 * b[8] >>

\* u32::to_be_bytes of a length or a count (below 2^31 in the model)
u32_to_be_bytes(n) ==
    << (n \div 16777216) % 256, (n \div 65536) % 256, (n \div 256) % 256, n % 256 >>

\* u32::from_be_bytes
u32_from_be_bytes(b) ==
    IF b[1] >= 128 THEN U32Huge
    ELSE b[4] + 256 * b[3] + 65536 * b[2] + 16777216 * b[1]

\* u32::from_le_bytes.  A value of 2^31 or more is larger than any file of
\* the model, and is only ever compared with the bytes left: it is kept as
\* U32Huge.
u32_from_le_bytes(b) ==
    IF b[4] >= 128 THEN U32Huge
    ELSE b[1] + 256 * b[2] + 65536 * b[3] + 16777216 * b[4]

\* The orders in which a HashMap with key set S may be iterated.
Orders(S) ==
    { s \in [1..Cardinality(S) -> S] : \A i, j \in 1..Cardinality(S) : i # j => s[i] # s[j] }

\* HashMap::insert
MapInsert(m, k, v) == [x \in DOMAIN m \cup {k} |-> IF x = k THEN v ELSE m[x]]

EmptyMap == [x \in {} |-> 0]

\* The function f itself, with all its values computed once
Tabulate(f) == f @@ EmptyMap

\* The element of a one-element set: Only({e : x \in {v}}) is e with x bound
\* to the value v, which is computed once
Only(S) == CHOOSE x \in S : TRUE

\* String::from_utf8(bytes).is_ok(): the well-formed UTF-8 byte sequences.
RECURSIVE IsUtf8(_)
IsUtf8(b) ==
    IF b = <<>> THEN TRUE
    ELSE LET b1 == b[1]
             Cont(i) == Len(b) >= i /\ b[i] >= 128 /\ b[i] <= 191
             Rest(n) == SubSeq(b, n + 1, Len(b))
         IN  IF b1 < 128 THEN IsUtf8(Rest(1))
             ELSE IF b1 >= 194 /\ b1 <= 223 THEN Cont(2) /\ IsUtf8(Rest(2))
             ELSE IF b1 >= 224 /\ b1 <= 239
                  THEN /\ Cont(2) /\ Cont(3)
                       /\ (b1 = 224 => b[2] >= 160)
                       /\ (b1 = 237 => b[2] <= 159)
                       /\ IsUtf8(Rest(3))
             ELSE IF b1 >= 240 /\ b1 <= 244
                  THEN /\ Cont(2) /\ Cont(3) /\ Cont(4)
                       /\ (b1 = 240 => b[2] >= 144)
                       /\ (b1 = 244 => b[2] <= 143)
                       /\ IsUtf8(Rest(4))
             ELSE FALSE

(***************************************************************************)
(* Strings, values and points of the model.                                *)
(***************************************************************************)
StrM == <<109>>                                             \* "m"
StrH == <<104>>                                             \* "h"
StrA == <<97>>                                              \* "a"
StrV == <<118>>                                             \* "v"
StrDefault == <<100, 101, 102, 97, 117, 108, 116>>          \* "default"
StrMeasurement == <<109, 101, 97, 115, 117, 114, 101, 109, 101, 110, 116>>  \* "measurement"

F64One == <<0, 0, 0, 16368>>     \* 1.0f64.to_bits() = 0x3FF0000000000000
F64Two == <<0, 0, 0, 16384>>     \* 2.0f64.to_bits() = 0x4000000000000000

\* DataPoint::new, add_tag, add_field
DataPoint(ts, tags, fields) == [timestamp |-> ts, tags |-> tags, fields |-> fields]

\* SeriesKey::new(measurement) followed by add_tag for every tag of the point
SeriesKey(measurement, tags) == [measurement |-> measurement, tags |-> tags]

NoTags == EmptyMap
TagsHA == MapInsert(EmptyMap, StrH, StrA)
NoFields == EmptyMap
FieldV(v) == MapInsert(EmptyMap, StrV, v)

PointInputs ==
    { DataPoint(U64Of(1), NoTags, FieldV(F64Two)),
      DataPoint(U64Of(2), TagsHA, FieldV(F64Two)),
      DataPoint(U64Of(1), NoTags, NoFields) }

\* The points written by a call of write_points
BatchInput ==
    << DataPoint(U64Of(1), NoTags, FieldV(F64One)),
       DataPoint(U64Of(2), NoTags, FieldV(F64One)) >>

(***************************************************************************)
(* The WAL record format (src/wal.rs).                                     *)
(***************************************************************************)
RECURSIVE EncodeTags(_, _)
EncodeTags(tags, order) ==
    IF order = <<>> THEN <<>>
    ELSE LET key == Head(order)
         IN  u32_to_be_bytes(Len(key)) \o key
             \o u32_to_be_bytes(Len(tags[key])) \o tags[key]
             \o EncodeTags(tags, Tail(order))

RECURSIVE EncodeFields(_, _)
EncodeFields(fields, order) ==
    IF order = <<>> THEN <<>>
    ELSE LET key == Head(order)
         IN  u32_to_be_bytes(Len(key)) \o key
             \o u64_to_be_bytes(fields[key])
             \o EncodeFields(fields, Tail(order))

\* The bytes append_data_point writes for one point; tagOrder and fieldOrder
\* are the iteration orders of point.tags and point.fields.
EncodeRecord(point, tagOrder, fieldOrder) ==
    u64_to_be_bytes(point.timestamp)
    \o u32_to_be_bytes(Cardinality(DOMAIN point.tags))
    \o EncodeTags(point.tags, tagOrder)
    \o u32_to_be_bytes(Cardinality(DOMAIN point.fields))
    \o EncodeFields(point.fields, fieldOrder)

\* The encodings of a point, over the iteration orders of its two maps.
RecordEncodings(point) ==
    { EncodeRecord(point, to, fo) :
        to \in Orders(DOMAIN point.tags), fo \in Orders(DOMAIN point.fields) }

\* reader.read_exact of n bytes at offset pos succeeds
CanRead(bytes, pos, n) == pos + n <= Len(bytes)
Slice(bytes, pos, n) == SubSeq(bytes, pos + 1, pos + n)

\* The loop over the tags of one record in load_points.  Returns the reader's
\* position, the tags added to the point, and whether a read hit the end of
\* the file (read_failed).
RECURSIVE ReadTags(_, _, _, _)
ReadTags(bytes, pos, count, tags) ==
    IF count = 0 THEN [failed |-> FALSE, pos |-> pos, map |-> tags]
    ELSE IF ~CanRead(bytes, pos, 4) THEN [failed |-> TRUE, pos |-> pos, map |-> tags]
    ELSE LET key_len == u32_from_le_bytes(Slice(bytes, pos, 4))
             p1 == pos + 4
         IN  IF key_len > Len(bytes) \/ ~CanRead(bytes, p1, key_len)
             THEN [failed |-> TRUE, pos |-> p1, map |-> tags]
             ELSE LET key == Slice(bytes, p1, key_len)
                      p2 == p1 + key_len
                  IN  IF ~IsUtf8(key) THEN ReadTags(bytes, p2, count - 1, tags)
                      ELSE IF ~CanRead(bytes, p2, 4)
                      THEN [failed |-> TRUE, pos |-> p2, map |-> tags]
                      ELSE LET val_len == u32_from_le_bytes(Slice(bytes, p2, 4))
                               p3 == p2 + 4
                           IN  IF val_len > Len(bytes) \/ ~CanRead(bytes, p3, val_len)
                               THEN [failed |-> TRUE, pos |-> p3, map |-> tags]
                               ELSE LET value == Slice(bytes, p3, val_len)
                                        p4 == p3 + val_len
                                    IN  IF ~IsUtf8(value)
                                        THEN ReadTags(bytes, p4, count - 1, tags)
                                        ELSE ReadTags(bytes, p4, count - 1,
                                                      MapInsert(tags, key, value))

\* The loop over the fields of one record in load_points.
RECURSIVE ReadFields(_, _, _, _)
ReadFields(bytes, pos, count, fields) ==
    IF count = 0 THEN [failed |-> FALSE, pos |-> pos, map |-> fields]
    ELSE IF ~CanRead(bytes, pos, 4) THEN [failed |-> TRUE, pos |-> pos, map |-> fields]
    ELSE LET key_len == u32_from_le_bytes(Slice(bytes, pos, 4))
             p1 == pos + 4
         IN  IF key_len > Len(bytes) \/ ~CanRead(bytes, p1, key_len)
             THEN [failed |-> TRUE, pos |-> p1, map |-> fields]
             ELSE LET key == Slice(bytes, p1, key_len)
                      p2 == p1 + key_len
                  IN  IF ~IsUtf8(key) THEN ReadFields(bytes, p2, count - 1, fields)
                      ELSE IF ~CanRead(bytes, p2, 8)
                      THEN [failed |-> TRUE, pos |-> p2, map |-> fields]
                      ELSE ReadFields(bytes, p2 + 8, count - 1,
                                MapInsert(fields, key,
                                          u64_from_le_bytes(Slice(bytes, p2, 8))))

\* The measurement load_points files a decoded point under.
LoadedMeasurement(point) ==
    IF StrMeasurement \in DOMAIN point.tags THEN point.tags[StrMeasurement]
    ELSE StrDefault

\* The record loop of load_points: the decoded points, in file order, each
\* with the measurement it is filed under.
RECURSIVE LoadRecords(_, _)
LoadRecords(bytes, pos) ==
    IF ~CanRead(bytes, pos, 8) THEN <<>>
    ELSE LET timestamp == u64_from_le_bytes(Slice(bytes, pos, 8))
         IN  IF ~CanRead(bytes, pos + 8, 4) THEN <<>>
             ELSE LET tag_count == u32_from_le_bytes(Slice(bytes, pos + 8, 4))
                      t == ReadTags(bytes, pos + 12, tag_count, EmptyMap)
                  IN  IF t.failed \/ ~CanRead(bytes, t.pos, 4) THEN <<>>
                      ELSE LET field_count == u32_from_le_bytes(Slice(bytes, t.pos, 4))
                               f == ReadFields(bytes, t.pos + 4, field_count, EmptyMap)
                           IN  IF f.failed THEN <<>>
                               ELSE LET point == DataPoint(timestamp, t.map, f.map)
                                    IN  <<[measurement |-> LoadedMeasurement(point),
                                           point |-> point]>>
                                        \o LoadRecords(bytes, f.pos)

\* Wal::load_points on a file holding `bytes`
load_points(bytes) == LoadRecords(bytes, 0)

(***************************************************************************)
(* Timestamps, the MemTable and the query filter (src/types.rs, db.rs).    *)
(***************************************************************************)
\* a < b and a <= b on u64
U64Lt(a, b) ==
    \/ a[4] < b[4]
    \/ a[4] = b[4] /\ a[3] < b[3]
    \/ a[4] = b[4] /\ a[3] = b[3] /\ a[2] < b[2]
    \/ a[4] = b[4] /\ a[3] = b[3] /\ a[2] = b[2] /\ a[1] < b[1]
U64Le(a, b) == a = b \/ U64Lt(a, b)

U64Max == <<65535, 65535, 65535, 65535>>

\* Option<T>
None == <<>>
Some(x) == <<x>>

\* QueryFilter::new(start, end).measurement(..).add_tag(..).add_field(..)
QueryFilter(measurement, start, end, tags, fields) ==
    [measurement |-> measurement, time_range |-> <<start, end>>,
     tags |-> tags, fields |-> fields]

\* mem.entry(series_key).or_insert_with(Vec::new).push(point)
MemInsert(mem, series_key, point) ==
    [k \in DOMAIN mem \cup {series_key} |->
        IF k = series_key
        THEN (IF k \in DOMAIN mem THEN Append(mem[k], point) ELSE <<point>>)
        ELSE mem[k]]

RECURSIVE MemInsertAll(_, _, _)
MemInsertAll(mem, measurement, points) ==
    IF points = <<>> THEN mem
    ELSE MemInsertAll(MemInsert(mem, SeriesKey(measurement, Head(points).tags), Head(points)),
                      measurement, Tail(points))

RECURSIVE SumLen(_, _)
SumLen(mem, keys) ==
    IF keys = {} THEN 0
    ELSE LET k == CHOOSE x \in keys : TRUE
         IN  Len(mem[k]) + SumLen(mem, keys \ {k})

\* The number of series, whatever they hold
SeriesCount(mem) == Cardinality(DOMAIN mem)

\* mem.values().map(|points| points.len()).sum()
total_points(mem) == SumLen(mem, DOMAIN mem)

\* The series filter that looks at the measurement only
MeasurementOnly(series_key, filter) ==
    filter.measurement # None => series_key.measurement = filter.measurement[1]

\* The range test that leaves out a point at the end of the range
EndExclusive(ts, filter) ==
    U64Le(filter.time_range[1], ts) /\ U64Lt(ts, filter.time_range[2])

\* The measurement and tag tests of SimpleTSDB::query and SSTable::query
SeriesMatches(series_key, filter) ==
    /\ filter.measurement # None => series_key.measurement = filter.measurement[1]
    /\ \A tag_key \in DOMAIN filter.tags :
          /\ tag_key \in DOMAIN series_key.tags
          /\ series_key.tags[tag_key] = filter.tags[tag_key]

InRange(ts, filter) ==
    U64Le(filter.time_range[1], ts) /\ U64Le(ts, filter.time_range[2])

\* How many times the MemTable scan pushes a point's value for field_name:
\* once when the filter names no field, else once per occurrence of the
\* field in filter.fields.
RECURSIVE Occurrences(_, _)
Occurrences(fields, field_name) ==
    IF fields = <<>> THEN 0
    ELSE (IF Head(fields) = field_name THEN 1 ELSE 0) + Occurrences(Tail(fields), field_name)

RECURSIVE Repeat(_, _)
Repeat(x, n) == IF n = 0 THEN <<>> ELSE <<x>> \o Repeat(x, n - 1)

RECURSIVE MemFieldSeries(_, _, _)
MemFieldSeries(points, field_name, filter) ==
    IF points = <<>> THEN <<>>
    ELSE LET point == Head(points)
             n == IF filter.fields = <<>> THEN 1 ELSE Occurrences(filter.fields, field_name)
         IN  (IF InRange(point.timestamp, filter) /\ field_name \in DOMAIN point.fields
              THEN Repeat(<<point.timestamp, point.fields[field_name]>>, n)
              ELSE <<>>)
             \o MemFieldSeries(Tail(points), field_name, filter)

\* field_points of one matching series
MemFieldPoints(points, filter) ==
    LET names == UNION { DOMAIN points[i].fields : i \in 1..Len(points) }
        lists == Tabulate([f \in names |-> MemFieldSeries(points, f, filter)])
    IN  [f \in { g \in names : lists[g] # <<>> } |-> lists[f]]

\* The MemTable part of SimpleTSDB::query: series -> field -> [(ts, value)]
MemQuery(mem, filter) ==
    LET matching == { k \in DOMAIN mem : SeriesMatches(k, filter) }
        fp == Tabulate([k \in matching |-> MemFieldPoints(mem[k], filter)])
    IN  [k \in { x \in matching : DOMAIN fp[x] # {} } |-> fp[k]]

\* The merge loop of SimpleTSDB::query for one SSTable's results
MergeResults(result, sst_results) ==
    [k \in DOMAIN result \cup DOMAIN sst_results |->
        LET old == IF k \in DOMAIN result THEN result[k] ELSE EmptyMap
            new == IF k \in DOMAIN sst_results THEN sst_results[k] ELSE EmptyMap
        IN  [f \in DOMAIN old \cup DOMAIN new |->
                (IF f \in DOMAIN old THEN old[f] ELSE <<>>)
                \o (IF f \in DOMAIN new THEN new[f] ELSE <<>>)]]

\* points.sort_by_key(|&(ts, _)| ts): a stable sort
RECURSIVE InsertByTs(_, _)
InsertByTs(sorted, x) ==
    IF sorted = <<>> THEN <<x>>
    ELSE IF U64Lt(x[1], Head(sorted)[1]) THEN <<x>> \o sorted
    ELSE <<Head(sorted)>> \o InsertByTs(Tail(sorted), x)

RECURSIVE SortByTs(_)
SortByTs(points) ==
    IF points = <<>> THEN <<>>
    ELSE InsertByTs(SortByTs(SubSeq(points, 1, Len(points) - 1)), points[Len(points)])

\* The same list with every duplicate timestamp left in.
KeepDuplicates(points) == points

\* points.dedup_by_key(|&mut (ts, _)| ts): of a run of consecutive entries
\* with the same timestamp the first is kept
RECURSIVE DedupByTs(_)
DedupByTs(points) ==
    IF Len(points) <= 1 THEN points
    ELSE LET rest == DedupByTs(Tail(points))
         IN  IF Head(points)[1] = Head(rest)[1]
             THEN <<Head(points)>> \o Tail(rest)
             ELSE <<Head(points)>> \o rest

\* The closing loop of SimpleTSDB::query
SortAndDedup(result) ==
    [k \in DOMAIN result |-> [f \in DOMAIN result[k] |-> DedupByTs(SortByTs(result[k][f]))]]

(***************************************************************************)
(* Bit-level I/O (src/gorilla.rs, BitWriter).                              *)
(*                                                                         *)
(* The shifts `1 << bits` and `buffer >>= bits` with bits = 64, and the    *)
(* u8/i64 arithmetic, overflow: a build with overflow checks (debug)       *)
(* panics there, a build without (release) wraps.  `checked` is TRUE for   *)
(* the build with overflow checks.                                         *)
(***************************************************************************)
RECURSIVE BitsToNat(_)
BitsToNat(bits) == IF bits = <<>> THEN 0 ELSE Head(bits) + 2 * BitsToNat(Tail(bits))

\* The 64 bits of a u64, least significant first
U64Bits(x) ==
    Tabulate([i \in 1..64 |-> (x[((i - 1) \div 16) + 1] \div 2^((i - 1) % 16)) % 2])
BitsU64(b) == [l \in 1..4 |-> BitsToNat(SubSeq(b, 16 * (l - 1) + 1, 16 * l))]

u64_to_le_bytes(x) ==
    << x[1] % 256, x[1] \div 256, x[2] % 256, x[2] \div 256,
       x[3] % 256, x[3] \div 256, x[4] % 256, x[4] \div 256 >>
u32_to_le_bytes(n) ==
    << n % 256, (n \div 256) % 256, (n \div 65536) % 256, (n \div 16777216) % 256 >>

\* BitWriter::new: `out` are the bytes handed to the underlying writer,
\* `pend` the bits_in_buffer low bits of `buffer` (fewer than 8 between calls)
BitWriterNew == [out |-> <<>>, pend |-> <<>>, panicked |-> FALSE]

\* BitWriter::write_bits.  The mask (1 << bits) - 1 is 0 for bits = 64 when
\* the shift wraps, and the bits of the value shifted past bit 63 of the
\* 64-bit buffer are lost.
write_bits(w, value, bits, checked) ==
    IF bits = 0 \/ w.panicked THEN w
    ELSE IF bits >= 64 /\ checked THEN [w EXCEPT !.panicked = TRUE]
    ELSE LET k == Len(w.pend)
             n == (k + bits) \div 8
         IN  Only({ [out |-> w.out \o [j \in 1..n |->
                                          BitsToNat(SubSeq(stream, 8 * (j - 1) + 1, 8 * j))],
                     pend |-> SubSeq(stream, 8 * n + 1, Len(stream)),
                     panicked |-> FALSE]
                    : stream \in { w.pend \o [i \in 1..bits |->
                                      IF bits >= 64 \/ k + i > 64 THEN 0 ELSE vb[i]]
                                    : vb \in {U64Bits(value)} } })

\* BitWriter::flush
BitWriterFlush(w) ==
    IF w.pend = <<>> \/ w.panicked THEN w
    ELSE [w EXCEPT !.out = w.out \o <<BitsToNat(w.pend)>>, !.pend = <<>>]

(***************************************************************************)
(* u64 / i64 arithmetic on limbs.                                          *)
(***************************************************************************)
\* wrapping a - b
U64Sub(a, b) ==
    LET d1 == a[1] - b[1]
        c1 == IF d1 < 0 THEN 1 ELSE 0
        d2 == a[2] - b[2] - c1
        c2 == IF d2 < 0 THEN 1 ELSE 0
        d3 == a[3] - b[3] - c2
        c3 == IF d3 < 0 THEN 1 ELSE 0
        d4 == a[4] - b[4] - c3
    IN  << d1 % Limb, d2 % Limb, d3 % Limb, d4 % Limb >>

\* wrapping a + b
U64Add(a, b) ==
    LET s1 == a[1] + b[1]
        s2 == a[2] + b[2] + s1 \div Limb
        s3 == a[3] + b[3] + s2 \div Limb
        s4 == a[4] + b[4] + s3 \div Limb
    IN  << s1 % Limb, s2 % Limb, s3 % Limb, s4 % Limb >>

I64Negative(x) == x[4] >= 32768
\* i64 a - b overflows, i64 a + b overflows
I64SubOverflows(a, b) ==
    I64Negative(a) # I64Negative(b) /\ I64Negative(U64Sub(a, b)) # I64Negative(a)
I64AddOverflows(a, b) ==
    I64Negative(a) = I64Negative(b) /\ I64Negative(U64Add(a, b)) # I64Negative(a)

\* an i64 within -2^31 .. 2^31 - 1, and its value
I64IsSmall(x) ==
    \/ x[4] = 0 /\ x[3] = 0 /\ x[2] < 32768
    \/ x[4] = 65535 /\ x[3] = 65535 /\ x[2] >= 32768
I64Small(x) == IF x[4] = 0 THEN x[2] * Limb + x[1] ELSE (x[2] - Limb) * Limb + x[1]
\* lo <= x <= hi for an i64 x and small lo, hi
I64Between(x, lo, hi) == I64IsSmall(x) /\ lo <= I64Small(x) /\ I64Small(x) <= hi

U64Xor(a, b) ==
    LET ab == U64Bits(a)
        bb == U64Bits(b)
    IN  BitsU64([i \in 1..64 |-> (ab[i] + bb[i]) % 2])

\* u64::leading_zeros, u64::trailing_zeros of x # 0
leading_zeros(x) ==
    LET xb == U64Bits(x)
    IN  64 - (CHOOSE i \in 1..64 : xb[i] = 1 /\ \A j \in (i + 1)..64 : xb[j] = 0)
trailing_zeros(x) ==
    LET xb == U64Bits(x)
    IN  (CHOOSE i \in 1..64 : xb[i] = 1 /\ \A j \in 1..(i - 1) : xb[j] = 0) - 1

\* x >> n and x << n for 0 <= n < 64
U64Shr(x, n) ==
    LET xb == U64Bits(x)
    IN  BitsU64([i \in 1..64 |-> IF i + n <= 64 THEN xb[i + n] ELSE 0])
U64Shl(x, n) ==
    LET xb == U64Bits(x)
    IN  BitsU64([i \in 1..64 |-> IF i - n >= 1 THEN xb[i - n] ELSE 0])

U64Zero == <<0, 0, 0, 0>>

(***************************************************************************)
(* GorillaEncoder (src/gorilla.rs).                                        *)
(***************************************************************************)
GorillaEncoderNew ==
    [bit_writer |-> BitWriterNew, prev_timestamp |-> U64Zero, prev_delta |-> U64Zero,
     prev_value |-> U64Zero, first_value |-> TRUE]

\* the delta-of-delta part of encode
EncodeDod(w, delta_of_delta, checked) ==
    IF delta_of_delta = U64Zero THEN write_bits(w, U64Of(0), 1, checked)
    ELSE IF I64Between(delta_of_delta, -63, 64)
    THEN write_bits(write_bits(w, U64Of(2), 2, checked), delta_of_delta, 7, checked)
    ELSE IF I64Between(delta_of_delta, -255, 256)
    THEN write_bits(write_bits(w, U64Of(6), 3, checked), delta_of_delta, 9, checked)
    ELSE IF I64Between(delta_of_delta, -2047, 2048)
    THEN write_bits(write_bits(w, U64Of(14), 4, checked), delta_of_delta, 12, checked)
    ELSE write_bits(write_bits(w, U64Of(15), 4, checked), delta_of_delta, 32, checked)

\* the XOR part of encode
EncodeXor(w, xor, checked) ==
    IF xor = U64Zero THEN write_bits(w, U64Of(0), 1, checked)
    ELSE LET lz == leading_zeros(xor)
             tz == trailing_zeros(xor)
             significant_bits == 64 - lz - tz
             w1 == write_bits(w, U64Of(1), 1, checked)
             w2 == write_bits(w1, U64Of(lz), 5, checked)
             w3 == write_bits(w2, U64Of(significant_bits), 6, checked)
         IN  write_bits(w3, U64Shr(xor, tz), significant_bits, checked)

\* GorillaEncoder::encode; value is f64::to_bits(value)
encode(e, timestamp, value, checked) ==
    IF e.first_value
    THEN [bit_writer |-> write_bits(write_bits(e.bit_writer, timestamp, 64, checked),
                                    value, 64, checked),
          prev_timestamp |-> timestamp, prev_delta |-> e.prev_delta,
          prev_value |-> value, first_value |-> FALSE]
    ELSE LET delta == U64Sub(timestamp, e.prev_timestamp)
             delta_of_delta == U64Sub(delta, e.prev_delta)
             overflow == checked /\ (\/ I64SubOverflows(timestamp, e.prev_timestamp)
                                     \/ I64SubOverflows(delta, e.prev_delta))
             w0 == IF overflow THEN [e.bit_writer EXCEPT !.panicked = TRUE]
                   ELSE e.bit_writer
             w1 == EncodeDod(w0, delta_of_delta, checked)
             w2 == EncodeXor(w1, U64Xor(value, e.prev_value), checked)
         IN  [bit_writer |-> w2, prev_timestamp |-> timestamp, prev_delta |-> delta,
              prev_value |-> value, first_value |-> FALSE]

RECURSIVE EncodeAll(_, _, _)
EncodeAll(e, points, checked) ==
    IF points = <<>> THEN e
    ELSE EncodeAll(encode(e, Head(points)[1], Head(points)[2], checked), Tail(points), checked)

\* TimeSeriesBlock::compress: [panicked, bytes]
compress(points, checked) ==
    Only({ [panicked |-> w.panicked,
            bytes |-> u32_to_le_bytes(Len(points)) \o w.out]
           : w \in {BitWriterFlush(EncodeAll(GorillaEncoderNew, SortByTs(points),
                                              checked).bit_writer)} })

(***************************************************************************)
(* MultiFieldBlock: one block per field of a series.  Its byte layout is   *)
(* the payload of the SSTable file format:                                 *)
(*   field_count: u32, then per field name_len: u32, name_bytes,           *)
(*   block_len: u32, block_bytes (u32 count + Gorilla bitstream),          *)
(* all little-endian.  A field's block holds the points where the field is *)
(* set, ascending by timestamp, the last write winning on a duplicate.     *)
(***************************************************************************)
MultiFieldBlockNew == EmptyMap

\* MultiFieldBlock::add_point(timestamp, fields)
add_point(block, timestamp, fields) ==
    [f \in DOMAIN block \cup DOMAIN fields |->
        (IF f \in DOMAIN block THEN block[f] ELSE <<>>)
        \o (IF f \in DOMAIN fields THEN << <<timestamp, fields[f]>> >> ELSE <<>>)]

RECURSIVE AddPoints(_, _)
AddPoints(block, data_points) ==
    IF data_points = <<>> THEN block
    ELSE AddPoints(add_point(block, Head(data_points).timestamp, Head(data_points).fields),
                   Tail(data_points))

\* Of a run of entries with the same timestamp in a sorted list, the last
RECURSIVE DedupLastWins(_)
DedupLastWins(points) ==
    IF Len(points) <= 1 THEN points
    ELSE IF points[1][1] = points[2][1] THEN DedupLastWins(Tail(points))
    ELSE <<Head(points)>> \o DedupLastWins(Tail(points))

\* The points a field's block is built from
FieldBlockPoints(points) == DedupLastWins(SortByTs(points))

RECURSIVE CompressFields(_, _, _)
CompressFields(block, order, checked) ==
    IF order = <<>> THEN [panicked |-> FALSE, bytes |-> <<>>]
    ELSE LET name == Head(order)
         IN  Only({ [panicked |-> b.panicked \/ rest.panicked,
                     bytes |-> u32_to_le_bytes(Len(name)) \o name
                               \o u32_to_le_bytes(Len(b.bytes)) \o b.bytes \o rest.bytes]
                    : b \in {compress(FieldBlockPoints(block[name]), checked)},
                      rest \in {CompressFields(block, Tail(order), checked)} })

\* MultiFieldBlock::compress; `order` is the order the fields are written in
MultiFieldCompress(block, order, checked) ==
    Only({ [panicked |-> fs.panicked,
            bytes |-> u32_to_le_bytes(Cardinality(DOMAIN block)) \o fs.bytes]
           : fs \in {CompressFields(block, order, checked)} })

(***************************************************************************)
(* SSTable::create (src/sstable.rs).                                       *)
(***************************************************************************)
HexDigit(n) == IF n < 10 THEN 48 + n ELSE 87 + n

\* serde_json's escaping of one byte of a string
JsonEscape(c) ==
    IF c = 34 THEN <<92, 34>>
    ELSE IF c = 92 THEN <<92, 92>>
    ELSE IF c = 8 THEN <<92, 98>>
    ELSE IF c = 9 THEN <<92, 116>>
    ELSE IF c = 10 THEN <<92, 110>>
    ELSE IF c = 12 THEN <<92, 102>>
    ELSE IF c = 13 THEN <<92, 114>>
    ELSE IF c < 32 THEN <<92, 117, 48, 48, HexDigit(c \div 16), HexDigit(c % 16)>>
    ELSE <<c>>

RECURSIVE JsonChars(_)
JsonChars(str) == IF str = <<>> THEN <<>> ELSE JsonEscape(Head(str)) \o JsonChars(Tail(str))

JsonString(str) == <<34>> \o JsonChars(str) \o <<34>>

RECURSIVE JsonTags(_, _)
JsonTags(tags, order) ==
    IF order = <<>> THEN <<>>
    ELSE JsonString(Head(order)) \o <<58>> \o JsonString(tags[Head(order)])
         \o (IF Len(order) > 1 THEN <<44>> ELSE <<>>)
         \o JsonTags(tags, Tail(order))

\* serde_json::to_vec(series_key): {"measurement":"..","tags":{"k":"v",..}}
JsonSeriesKey(series_key, tagOrder) ==
    <<123>> \o JsonString(StrMeasurement) \o <<58>> \o JsonString(series_key.measurement)
    \o <<44>> \o JsonString(<<116, 97, 103, 115>>) \o <<58, 123>>
    \o JsonTags(series_key.tags, tagOrder) \o <<125, 125>>

RECURSIVE SumOver(_, _)
SumOver(f, keys) ==
    IF keys = {} THEN 0
    ELSE LET k == CHOOSE x \in keys : TRUE
         IN  f[k] + SumOver(f, keys \ {k})

\* key_size: the estimate create reserves index space by
KeySizeEstimate(series_key) ==
    4 + Len(series_key.measurement) + 4
    + SumOver([k \in DOMAIN series_key.tags |-> 4 + Len(k) + 4 + Len(series_key.tags[k])],
              DOMAIN series_key.tags)

Zeros(n) == [i \in 1..n |-> 0]

\* Writing `patch` at byte offset `off` of a file holding `base`
Overlay(base, off, patch) ==
    LET n == IF Len(base) > off + Len(patch) THEN Len(base) ELSE off + Len(patch)
    IN  [i \in 1..n |->
            IF i > off /\ i <= off + Len(patch) THEN patch[i - off]
            ELSE IF i <= Len(base) THEN base[i] ELSE 0]

\* The iteration orders SSTable::create depends on: of series_blocks (the
\* payloads), of series_positions (the index), of each block's fields and of
\* each key's tags.
CreateOrders(data_by_series) ==
    { [blocks |-> b, index |-> x, fields |-> f, tags |-> t] :
        b \in Orders(DOMAIN data_by_series), x \in Orders(DOMAIN data_by_series),
        f \in { g \in [DOMAIN data_by_series ->
                         UNION { Orders(DOMAIN AddPoints(MultiFieldBlockNew, data_by_series[k])) :
                                 k \in DOMAIN data_by_series }] :
                  \A k \in DOMAIN data_by_series :
                     g[k] \in Orders(DOMAIN AddPoints(MultiFieldBlockNew, data_by_series[k])) },
        t \in { g \in [DOMAIN data_by_series ->
                         UNION { Orders(DOMAIN k.tags) : k \in DOMAIN data_by_series }] :
                  \A k \in DOMAIN data_by_series : g[k] \in Orders(DOMAIN k.tags) } }

RECURSIVE PayloadLayout(_, _, _)
\* start_pos and length of every payload, written in `order` from `pos` on
PayloadLayout(payload, order, pos) ==
    IF order = <<>> THEN EmptyMap
    ELSE LET k == Head(order)
             rest == PayloadLayout(payload, Tail(order), pos + Len(payload[k]))
         IN  [x \in DOMAIN rest \cup {k} |-> IF x = k THEN <<pos, Len(payload[k])>> ELSE rest[x]]

RECURSIVE ConcatIn(_, _)
ConcatIn(f, order) == IF order = <<>> THEN <<>> ELSE f[Head(order)] \o ConcatIn(f, Tail(order))

\* The index entry of one series
IndexEntry(series_key, tagOrder, pos, len) ==
    LET key_bytes == JsonSeriesKey(series_key, tagOrder)
    IN  u32_to_le_bytes(Len(key_bytes)) \o key_bytes
        \o u64_to_le_bytes(U64Of(pos)) \o u64_to_le_bytes(U64Of(len))

\* The payloads written before the first block whose compress panics
RECURSIVE PayloadsBefore(_, _)
PayloadsBefore(blocks, order) ==
    IF order = <<>> \/ blocks[Head(order)].panicked THEN <<>>
    ELSE blocks[Head(order)].bytes \o PayloadsBefore(blocks, Tail(order))

\* SSTable::create: whether it panicked, the bytes of the file it wrote, the
\* same file before the index was written, the file a panic leaves behind
\* (the BufWriter is flushed when it is dropped), and series_index.
SSTableCreate(data_by_series, ord, checked) ==
    LET keys == DOMAIN data_by_series
        index_start_pos == 4
        series_count == u32_to_le_bytes(Cardinality(keys))
    IN  Only({
          Only({
            [panicked |-> \E k \in keys : blocks[k].panicked,
             bytes |-> Overlay(body, index_start_pos,
                               ConcatIn([k \in keys |->
                                            IndexEntry(k, ord.tags[k], series_positions[k][1],
                                                       series_positions[k][2])],
                                        ord.index)),
             unindexed |-> body,
             partial |-> IF written = <<>> THEN series_count
                         ELSE series_count \o Zeros(data_start_pos - index_start_pos)
                              \o written,
             series_index |-> series_positions]
            : series_positions \in {PayloadLayout([k \in keys |-> blocks[k].bytes],
                                                  ord.blocks, data_start_pos)},
              body \in {series_count \o Zeros(data_start_pos - index_start_pos)
                        \o ConcatIn([k \in keys |-> blocks[k].bytes], ord.blocks)},
              written \in {PayloadsBefore(blocks, ord.blocks)} })
          : blocks \in {[k \in keys |->
                           MultiFieldCompress(AddPoints(MultiFieldBlockNew, data_by_series[k]),
                                              ord.fields[k], checked)]},
            data_start_pos \in {index_start_pos
                                + SumOver([k \in keys |-> KeySizeEstimate(k) + 16], keys)} })

(***************************************************************************)
(* BitReader and GorillaDecoder (src/gorilla.rs).  The reader's buffer is  *)
(* kept as the 64 bits of the u64, least significant first, and            *)
(* bits_in_buffer as the u8 it is.                                         *)
(***************************************************************************)
BitReaderNew(data) == [data |-> data, pos |-> 0, buffer |-> Zeros(64), bits_in_buffer |-> 0]

\* The loop that refills the buffer until it holds `bits` bits or the data ends
RECURSIVE FillBuffer(_, _)
FillBuffer(r, bits) ==
    IF r.bits_in_buffer >= bits THEN [r |-> r, eof |-> FALSE]
    ELSE IF r.pos < Len(r.data)
    THEN LET byte == r.data[r.pos + 1]
             k == r.bits_in_buffer
         IN  FillBuffer([r EXCEPT !.pos = r.pos + 1,
                                  !.bits_in_buffer = k + 8,
                                  !.buffer = Tabulate([i \in 1..64 |->
                                      IF i > k /\ i <= k + 8 /\ (byte \div 2^(i - k - 1)) % 2 = 1
                                      THEN 1 ELSE r.buffer[i]])],
                        bits)
    ELSE [r |-> r, eof |-> r.bits_in_buffer = 0]

\* BitReader::read_bits: status "ok", "eof" (the Err of read_exact) or "panic"
read_bits(r, bits, checked) ==
    IF bits = 0 THEN [r |-> r, value |-> Zeros(64), status |-> "ok"]
    ELSE Only({
             IF f.eof THEN [r |-> f.r, value |-> Zeros(64), status |-> "eof"]
             ELSE IF checked /\ (bits >= 64 \/ f.r.bits_in_buffer < bits)
             THEN [r |-> f.r, value |-> Zeros(64), status |-> "panic"]
             ELSE [r |-> [f.r EXCEPT !.buffer = IF bits >= 64 THEN f.r.buffer
                                                ELSE Tabulate([i \in 1..64 |->
                                                         IF i + bits <= 64
                                                         THEN f.r.buffer[i + bits]
                                                         ELSE 0]),
                                     !.bits_in_buffer = (f.r.bits_in_buffer - bits) % 256],
                   value |-> Tabulate([i \in 1..64 |->
                                          IF bits < 64 /\ i <= bits THEN f.r.buffer[i] ELSE 0]),
                   status |-> "ok"]
             : f \in {FillBuffer(r, bits)} })

\* An n-bit two's complement number widened to an i64
SignExtend(value, n) == Tabulate([i \in 1..64 |-> IF i <= n THEN value[i] ELSE value[n]])

\* read_bits(n)? followed by the sign extension: an Err is returned as it is
ReadSigned(r, n, checked) ==
    Only({ [r |-> v.r,
            status |-> IF v.status = "eof" THEN "err" ELSE v.status,
            dod |-> SignExtend(v.value, n)]
           : v \in {read_bits(r, n, checked)} })

\* The delta-of-delta part of decode: the prefix is read bit by bit, an Err of
\* a prefix bit ends the stream (Ok(None))
ReadDod(r, checked) ==
    LET none(x) == [r |-> x.r, status |-> IF x.status = "eof" THEN "none" ELSE x.status,
                    dod |-> Zeros(64)]
    IN  Only({
          IF b1.status # "ok" THEN none(b1)
          ELSE IF b1.value[1] = 0 THEN [r |-> b1.r, status |-> "ok", dod |-> Zeros(64)]
          ELSE Only({
            IF b2.status # "ok" THEN none(b2)
            ELSE IF b2.value[1] = 0 THEN ReadSigned(b2.r, 7, checked)
            ELSE Only({
              IF b3.status # "ok" THEN none(b3)
              ELSE IF b3.value[1] = 0 THEN ReadSigned(b3.r, 9, checked)
              ELSE Only({
                IF b4.status # "ok" THEN none(b4)
                ELSE IF b4.value[1] = 0 THEN ReadSigned(b4.r, 12, checked)
                ELSE ReadSigned(b4.r, 32, checked)
                : b4 \in {read_bits(b3.r, 1, checked)} })
              : b3 \in {read_bits(b2.r, 1, checked)} })
            : b2 \in {read_bits(b1.r, 1, checked)} })
          : b1 \in {read_bits(r, 1, checked)} })

\* The XOR part of decode: the new value bits, given the previous ones
ReadXor(r, prev_value, checked) ==
    LET err(x) == [r |-> x.r, status |-> IF x.status = "eof" THEN "err" ELSE x.status,
                   value |-> prev_value]
    IN  Only({
          IF b.status # "ok"
          THEN [r |-> b.r, status |-> IF b.status = "eof" THEN "none" ELSE b.status,
                value |-> prev_value]
          ELSE IF b.value[1] = 0 THEN [r |-> b.r, status |-> "ok", value |-> prev_value]
          ELSE Only({
            IF lz.status # "ok" THEN err(lz)
            ELSE Only({
              IF sb.status # "ok" THEN err(sb)
              ELSE Only({
                Only({
                  IF mb.status # "ok" THEN err(mb)
                  ELSE IF checked /\ (shift < 0 \/ shift >= 64)
                  THEN [r |-> mb.r, status |-> "panic", value |-> prev_value]
                  ELSE [r |-> mb.r, status |-> "ok",
                        value |-> U64Xor(prev_value,
                                         U64Shl(BitsU64(mb.value), (shift % 256) % 64))]
                  : mb \in {read_bits(sb.r, significant_bits, checked)},
                    shift \in {64 - leading_zeros_u8 - significant_bits} })
                : leading_zeros_u8 \in {BitsToNat(SubSeq(lz.value, 1, 5))},
                  significant_bits \in {BitsToNat(SubSeq(sb.value, 1, 6))} })
              : sb \in {read_bits(lz.r, 6, checked)} })
            : lz \in {read_bits(b.r, 5, checked)} })
          : b \in {read_bits(r, 1, checked)} })

\* GorillaDecoder::new: the reader after the first timestamp was read
GorillaDecoderNew(data, checked) ==
    Only({ [status |-> IF t.status = "eof" THEN "err" ELSE t.status,
            bit_reader |-> t.r,
            first_timestamp |-> BitsU64(t.value),
            prev_timestamp |-> BitsU64(t.value),
            prev_delta |-> U64Zero,
            prev_value |-> U64Zero,
            first_value |-> TRUE]
           : t \in {read_bits(BitReaderNew(data), 64, checked)} })

\* GorillaDecoder::decode: status "some" (a point), "none", "err" or "panic"
decode(d, checked) ==
    IF d.first_value
    THEN Only({
             IF v.status # "ok"
             THEN [d |-> [d EXCEPT !.bit_reader = v.r],
                   status |-> IF v.status = "eof" THEN "none" ELSE v.status,
                   point |-> <<U64Zero, U64Zero>>]
             ELSE [d |-> [d EXCEPT !.bit_reader = v.r, !.prev_value = BitsU64(v.value),
                                   !.first_value = FALSE],
                   status |-> "some",
                   point |-> <<d.first_timestamp, BitsU64(v.value)>>]
             : v \in {read_bits(d.bit_reader, 64, checked)} })
    ELSE Only({
             IF t.status # "ok"
             THEN [d |-> [d EXCEPT !.bit_reader = t.r], status |-> t.status,
                   point |-> <<U64Zero, U64Zero>>]
             ELSE Only({
                 IF checked /\ I64AddOverflows(d.prev_delta, dod)
                 THEN [d |-> d, status |-> "panic", point |-> <<U64Zero, U64Zero>>]
                 ELSE Only({
                     IF checked /\ I64AddOverflows(d.prev_timestamp, delta)
                     THEN [d |-> d, status |-> "panic", point |-> <<U64Zero, U64Zero>>]
                     ELSE Only({
                         [d |-> [d EXCEPT !.bit_reader = x.r, !.prev_delta = delta,
                                          !.prev_timestamp = timestamp,
                                          !.prev_value = x.value],
                          status |-> IF x.status = "ok" THEN "some" ELSE x.status,
                          point |-> <<timestamp, x.value>>]
                         : timestamp \in {U64Add(d.prev_timestamp, delta)},
                           x \in {ReadXor(t.r, d.prev_value, checked)} })
                     : delta \in {U64Add(d.prev_delta, dod)} })
                 : dod \in {BitsU64(t.dod)} })
             : t \in {ReadDod(d.bit_reader, checked)} })

\* GorillaDecoder::decode_all, cut short once more than `limit` points are
\* decoded (its caller only compares the number of points with the block's
\* count, so a longer list is rejected whatever else it holds)
RECURSIVE decode_all(_, _, _, _)
decode_all(d, points, limit, checked) ==
    IF Len(points) > limit THEN [status |-> "ok", points |-> points]
    ELSE Only({
             IF n.status = "some" THEN decode_all(n.d, Append(points, n.point), limit, checked)
             ELSE [status |-> IF n.status = "none" THEN "ok" ELSE n.status, points |-> points]
             : n \in {decode(d, checked)} })

\* TimeSeriesBlock::decompress
decompress(data, checked) ==
    IF Len(data) < 4 THEN [status |-> "err", points |-> <<>>]
    ELSE Only({
             IF decoder.status # "ok" THEN [status |-> decoder.status, points |-> <<>>]
             ELSE Only({
                 IF all.status # "ok" THEN [status |-> all.status, points |-> <<>>]
                 ELSE IF Len(all.points) # len THEN [status |-> "err", points |-> <<>>]
                 ELSE [status |-> "ok", points |-> all.points]
                 : all \in {decode_all(decoder, <<>>, len, checked)} })
             : len \in {u32_from_le_bytes(SubSeq(data, 1, 4))},
               decoder \in {GorillaDecoderNew(SubSeq(data, 5, Len(data)), checked)} })

(***************************************************************************)
(* MultiFieldBlock, the reading side: the payload layout read back.        *)
(***************************************************************************)
\* the fields of a payload from byte `pos` on; ok is FALSE when the data is
\* cut short, a name is not UTF-8 or a block does not decompress
RECURSIVE DecompressFields(_, _, _, _, _)
DecompressFields(data, pos, count, block, checked) ==
    IF count = 0 THEN [status |-> "ok", block |-> block]
    ELSE IF ~CanRead(data, pos, 4) THEN [status |-> "err", block |-> block]
    ELSE Only({
           IF name_len > Len(data) \/ ~CanRead(data, pos + 4, name_len + 4)
           THEN [status |-> "err", block |-> block]
           ELSE Only({
             IF ~IsUtf8(name) \/ block_len > Len(data)
                \/ ~CanRead(data, pos + 8 + name_len, block_len)
             THEN [status |-> "err", block |-> block]
             ELSE Only({
               IF b.status # "ok" THEN [status |-> b.status, block |-> block]
               ELSE DecompressFields(data, pos + 8 + name_len + block_len, count - 1,
                                     MapInsert(block, name, b.points), checked)
               : b \in {decompress(Slice(data, pos + 8 + name_len, block_len), checked)} })
             : name \in {Slice(data, pos + 4, name_len)},
               block_len \in {u32_from_le_bytes(Slice(data, pos + 4 + name_len, 4))} })
           : name_len \in {u32_from_le_bytes(Slice(data, pos, 4))} })

\* MultiFieldBlock::decompress
MultiFieldDecompress(data, checked) ==
    IF ~CanRead(data, 0, 4) THEN [status |-> "err", block |-> EmptyMap]
    ELSE DecompressFields(data, 4, u32_from_le_bytes(Slice(data, 0, 4)), EmptyMap, checked)

RECURSIVE PointsInRange(_, _)
PointsInRange(points, filter) ==
    IF points = <<>> THEN <<>>
    ELSE (IF InRange(Head(points)[1], filter) THEN <<Head(points)>> ELSE <<>>)
         \o PointsInRange(Tail(points), filter)

\* MultiFieldBlock::query(start, end, fields): every requested field the
\* block has (every field when none is requested) with its points in range
MultiFieldQuery(block, filter) ==
    LET wanted == IF filter.fields = <<>> THEN DOMAIN block
                  ELSE { filter.fields[i] : i \in 1..Len(filter.fields) } \cap DOMAIN block
    IN  [f \in wanted |-> PointsInRange(block[f], filter)]

(***************************************************************************)
(* SSTable::open and SSTable::query (src/sstable.rs).                      *)
(***************************************************************************)
\* The series keys the store holds in this model
Measurements == {StrM, StrDefault}
SeriesKeys == { SeriesKey(m, t) : m \in Measurements, t \in {NoTags, TagsHA} }

\* serde_json::from_slice::<SeriesKey>: the key whose serialization the bytes
\* are; None for bytes that are no serialization of a key
ParseSeriesKey(bytes) ==
    LET parsed == { k \in SeriesKeys :
                      \E order \in Orders(DOMAIN k.tags) : JsonSeriesKey(k, order) = bytes }
    IN  IF parsed = {} THEN None ELSE Some(CHOOSE k \in parsed : TRUE)

\* A u64 read from a file, as the usize it is cast to (saturating where the
\* model's integers end)
HugeLen == 1073741823
UsizeOf(x) == IF x[3] = 0 /\ x[4] = 0 /\ x[2] < 16384 THEN x[2] * Limb + x[1] ELSE HugeLen

\* The index loop of SSTable::open
RECURSIVE ReadIndex(_, _, _, _)
ReadIndex(mmap, offset, count, series_index) ==
    IF count = 0 THEN [ok |-> TRUE, series_index |-> series_index]
    ELSE IF offset + 4 > Len(mmap) THEN [ok |-> FALSE, series_index |-> series_index]
    ELSE Only({
           \* offset + 4 + key_len + 16 > mmap.len()
           IF key_len > Len(mmap) - (offset + 4) - 16
           THEN [ok |-> FALSE, series_index |-> series_index]
           ELSE LET pos == UsizeOf(u64_from_le_bytes(Slice(mmap, offset + 4 + key_len, 8)))
                    len == UsizeOf(u64_from_le_bytes(Slice(mmap, offset + 12 + key_len, 8)))
                IN  Only({
                      IF series_key = None THEN [ok |-> FALSE, series_index |-> series_index]
                      ELSE ReadIndex(mmap, offset + 20 + key_len, count - 1,
                                     MapInsert(series_index, series_key[1], <<pos, len>>))
                      : series_key \in {ParseSeriesKey(Slice(mmap, offset + 4, key_len))} })
           : key_len \in {u32_from_le_bytes(Slice(mmap, offset, 4))} })

\* SSTable::open of a file holding `bytes`
SSTableOpen(bytes) ==
    IF Len(bytes) < 4 THEN [ok |-> FALSE, series_index |-> EmptyMap]
    ELSE ReadIndex(bytes, 4, u32_from_le_bytes(Slice(bytes, 0, 4)), EmptyMap)

\* SSTable::query of an SSTable whose file is mapped: status "ok" with the
\* results, "err", or "panic"
SSTableQuery(mmap, series_index, filter, checked) ==
    LET matching == { k \in DOMAIN series_index : SeriesMatches(k, filter) }
        outside(k) == series_index[k][1] + series_index[k][2] > Len(mmap)
    IN  Only({
          IF \E k \in matching : ~outside(k) /\ block[k].status = "panic"
          THEN [status |-> "panic", results |-> EmptyMap]
          ELSE IF \E k \in matching : outside(k)
          THEN [status |-> "err", results |-> EmptyMap]
          ELSE Only({
            [status |-> "ok",
             results |-> [k \in { x \in matching : block[x].status = "ok"
                                                   /\ DOMAIN field_results[x] # {} } |->
                             field_results[k]]]
            : field_results \in {[k \in matching |->
                                     MultiFieldQuery(block[k].block, filter)]} })
          : block \in {[k \in matching |->
                          IF outside(k) THEN [status |-> "err", block |-> EmptyMap]
                          ELSE MultiFieldDecompress(
                                   Slice(mmap, series_index[k][1], series_index[k][2]),
                                   checked)]} })

(***************************************************************************)
(* The store (src/db.rs): client threads calling write_point, write_points *)
(* and query, the background flush thread, the WAL file and the SSTable    *)
(* files on disk, a crash of the process and SimpleTSDB::open.             *)
(***************************************************************************)
VARIABLES
    build,      \* "debug" (overflow checks panic) or "release" (they wrap)
    up,         \* the process is running
    walFile,    \* the bytes of the WAL file on disk
    walBuf,     \* bytes left in the WAL's BufWriter by a failed flush
    sstFiles,   \* the SSTable files on disk, oldest first
    memtable,   \* SeriesKey -> sequence of DataPoint
    sstables,   \* the shared Vec<SSTable>
    memLock,    \* holder of the MemTable mutex: "free" or "flush"
    poisoned,   \* the MemTable mutex is poisoned
    flushPc,    \* where the flush thread is
    flushSst,   \* the SSTable created in this cycle, not yet pushed
    lastFlush,  \* how the last finished flush cycle ended
    pc,         \* where each client thread is
    arg,        \* the call each client is in
    res,        \* the result of a client's query
    ackLog,     \* every write that returned Ok, in order
    walLog,     \* the points whose records were written to the WAL file
    walBufLog,  \* the points whose records are in walBuf
    flushed,    \* the writes moved to an SSTable since the process started
    nWrites, nQueries, nCrashes, nIoErrors

vars == <<build, up, walFile, walBuf, sstFiles, memtable, sstables, memLock, poisoned,
          flushPc, flushSst, lastFlush, pc, arg, res, ackLog, walLog, walBufLog, flushed,
          nWrites, nQueries, nCrashes, nIoErrors>>

Clients == {"c1", "c2"}

Checked == build = "debug"

NoArg == [op |-> "none"]
NoResult == [status |-> "none"]

\* The calls the clients make
WriteInputs ==
    { [op |-> "write_point", measurement |-> StrM, points |-> <<p>>] : p \in PointInputs }
    \cup { [op |-> "write_points", measurement |-> StrM,
            points |-> BatchInput] }

QueryInputs ==
    { QueryFilter(None, U64Zero, U64Max, EmptyMap, <<>>),
      QueryFilter(Some(StrM), U64Of(1), U64Of(1), EmptyMap, <<StrV>>) }

\* The bytes append_data_point / batch_append_data_points write for `points`
RECURSIVE BatchEncodings(_)
BatchEncodings(points) ==
    IF points = <<>> THEN { <<>> }
    ELSE { r \o rest : r \in RecordEncodings(Head(points)),
                       rest \in BatchEncodings(Tail(points)) }

\* The WAL after file.write_all(..) and file.flush(): a failed flush leaves
\* the bytes in the BufWriter
wal_append(file, buf, bytes, ok) ==
    IF ok THEN [file |-> file \o buf \o bytes, buf |-> <<>>]
    ELSE [file |-> file, buf |-> buf \o bytes]

\* Wal::clear: set_len(0), seek, flush of the BufWriter
wal_clear(file, buf, ok) ==
    IF ok THEN [file |-> buf, buf |-> <<>>] ELSE [file |-> file, buf |-> buf]

\* A write that ignores the result of the WAL append
IgnoreAppendResult(ok) == "w_insert"

\* self.wal.append_data_point(&point)?: an Err returns from the call
AfterAppend(ok) == IF ok THEN "w_insert" ELSE "idle"

RECURSIVE Acked(_, _)
Acked(measurement, points) ==
    IF points = <<>> THEN <<>>
    ELSE <<[measurement |-> measurement, point |-> Head(points)]>>
         \o Acked(measurement, Tail(points))

\* The memtable SimpleTSDB::open builds from the records of the WAL
RECURSIVE OpenMemtable(_, _)
OpenMemtable(mem, records) ==
    IF records = <<>> THEN mem
    ELSE OpenMemtable(MemInsert(mem, SeriesKey(Head(records).measurement,
                                               Head(records).point.tags),
                                Head(records).point),
                      Tail(records))

\* An open that gives up on the directory at the first file that does not parse
AbortOnBadFile(files, order) ==
    IF \E i \in 1..Len(order) : ~SSTableOpen(files[order[i]]).ok THEN <<>>
    ELSE [i \in 1..Len(order) |->
             [file |-> order[i], mmap |-> TRUE,
              series_index |-> SSTableOpen(files[order[i]]).series_index]]

\* The SSTables SimpleTSDB::open loads, the files read in `order`
RECURSIVE OpenSstables(_, _)
OpenSstables(files, order) ==
    IF order = <<>> THEN <<>>
    ELSE Only({ IF o.ok THEN <<[file |-> Head(order), mmap |-> TRUE,
                                series_index |-> o.series_index]>>
                ELSE <<>>
                : o \in {SSTableOpen(files[Head(order)])} })
         \o OpenSstables(files, Tail(order))

\* The SSTable loop of SimpleTSDB::query
RECURSIVE QuerySstables(_, _, _, _, _)
QuerySstables(result, ssts, files, filter, checked) ==
    IF ssts = <<>> THEN [status |-> "ok", value |-> result]
    ELSE LET sst == Head(ssts)
         IN  IF ~sst.mmap THEN [status |-> "err", value |-> EmptyMap]
             ELSE Only({
                    IF q.status # "ok" THEN [status |-> q.status, value |-> EmptyMap]
                    ELSE QuerySstables(MergeResults(result, q.results), Tail(ssts), files,
                                       filter, checked)
                    : q \in {SSTableQuery(files[sst.file], sst.series_index, filter,
                                           checked)} })

\* The value SimpleTSDB::query returns, the MemTable part being `partial`
QueryResult(partial, ssts, files, filter, checked) ==
    Only({ IF merged.status # "ok" THEN merged
           ELSE [status |-> "ok", value |-> SortAndDedup(merged.value)]
           : merged \in {QuerySstables(partial, ssts, files, filter, checked)} })

\* file ends with bytes
EndsWith(file, bytes) ==
    /\ Len(bytes) <= Len(file)
    /\ SubSeq(file, Len(file) - Len(bytes) + 1, Len(file)) = bytes

\* The writes a MemTable holds, as [measurement, point] entries
RECURSIVE MemEntriesIn(_, _)
MemEntriesIn(mem, order) ==
    IF order = <<>> THEN <<>>
    ELSE Acked(Head(order).measurement, mem[Head(order)]) \o MemEntriesIn(mem, Tail(order))

MemEntries(mem, orders) == MemEntriesIn(mem, CHOOSE o \in orders : TRUE)

\* The shared set without the new SSTable
DropSst(ssts, sst) == ssts

\* sstables.lock().unwrap().push(sst)
PushSst(ssts, sst) == Append(ssts, sst)

\* A flush cycle that clears the MemTable although no SSTable was created
ForgetMemtable(state) == [state EXCEPT !.memtable = EmptyMap]

\* The Err arm of the flush cycle: the error is logged, nothing else
FlushErr(state) == state

Init ==
    /\ build \in {"debug", "release"}
    /\ up = TRUE
    /\ walFile = <<>>
    /\ walBuf = <<>>
    /\ sstFiles = <<>>
    /\ memtable = EmptyMap
    /\ sstables = <<>>
    /\ memLock = "free"
    /\ poisoned = FALSE
    /\ flushPc = "sleep"
    /\ flushSst = None
    /\ lastFlush = "none"
    /\ pc = [c \in Clients |-> "idle"]
    /\ arg = [c \in Clients |-> NoArg]
    /\ res = [c \in Clients |-> NoResult]
    /\ ackLog = <<>>
    /\ walLog = <<>>
    /\ walBufLog = <<>>
    /\ flushed = <<>>
    /\ nWrites = 0
    /\ nQueries = 0
    /\ nCrashes = 0
    /\ nIoErrors = 0

\* A lock that lets every caller in
NoMemMutex(holder) == TRUE

\* A lock that admits the writers while the flush thread holds the guard
FlushAdmitsWriters(holder) == holder \in {"free", "flush"}

\* memtable.lock() returns once no thread holds the guard
MemFree(holder) == holder = "free"

\* write_point / write_points up to the return of the WAL append
WriteAppend(c) ==
    /\ up /\ pc[c] = "idle" /\ nWrites < MaxWrites
    /\ \E w \in WriteInputs : \E bytes \in BatchEncodings(w.points) :
          LET wal == wal_append(walFile, walBuf, bytes, TRUE)
              log == wal_append(walLog, walBufLog, w.points, TRUE)
          IN  /\ walFile' = wal.file
              /\ walBuf' = wal.buf
              /\ walLog' = log.file
              /\ walBufLog' = log.buf
              /\ arg' = [arg EXCEPT ![c] = [op |-> w.op, measurement |-> w.measurement,
                                            points |-> w.points,
                                            appended |-> EndsWith(wal.file, bytes),
                                            in_flush |-> memLock = "flush"]]
    /\ pc' = [pc EXCEPT ![c] = AfterAppend(TRUE)]
    /\ nWrites' = nWrites + 1
    /\ UNCHANGED <<build, up, sstFiles, memtable, sstables, memLock, poisoned, flushPc,
                   flushSst, lastFlush, res, ackLog, flushed, nQueries, nCrashes,
                   nIoErrors>>

\* The same with the flush of the WAL's writer failing: the call returns Err
WriteAppendFail(c) ==
    /\ up /\ pc[c] = "idle" /\ nWrites < MaxWrites /\ nIoErrors < MaxIoErrors
    /\ \E w \in WriteInputs : \E bytes \in BatchEncodings(w.points) :
          LET wal == wal_append(walFile, walBuf, bytes, FALSE)
              log == wal_append(walLog, walBufLog, w.points, FALSE)
              next == AfterAppend(FALSE)
          IN  /\ walFile' = wal.file
              /\ walBuf' = wal.buf
              /\ walLog' = log.file
              /\ walBufLog' = log.buf
              /\ pc' = [pc EXCEPT ![c] = next]
              /\ arg' = [arg EXCEPT ![c] =
                            IF next = "idle" THEN NoArg
                            ELSE [op |-> w.op, measurement |-> w.measurement,
                                  points |-> w.points,
                                  appended |-> wal.file # walFile,
                                  in_flush |-> memLock = "flush"]]
    /\ nWrites' = nWrites + 1
    /\ nIoErrors' = nIoErrors + 1
    /\ UNCHANGED <<build, up, sstFiles, memtable, sstables, memLock, poisoned, flushPc,
                   flushSst, lastFlush, res, ackLog, flushed, nQueries, nCrashes>>

\* The rest of write_point / write_points: lock the MemTable, insert, return Ok
WriteInsert(c) ==
    /\ up /\ pc[c] = "w_insert" /\ MemFree(memLock) /\ ~poisoned
    /\ memtable' = MemInsertAll(memtable, arg[c].measurement, arg[c].points)
    /\ ackLog' = ackLog \o Acked(arg[c].measurement, arg[c].points)
    /\ pc' = [pc EXCEPT ![c] = "idle"]
    /\ arg' = [arg EXCEPT ![c] = NoArg]
    /\ UNCHANGED <<build, up, walFile, walBuf, sstFiles, sstables, memLock, poisoned,
                   flushPc, flushSst, lastFlush, res, walLog, walBufLog, flushed,
                   nWrites, nQueries, nCrashes, nIoErrors>>

\* memtable.lock().unwrap() on the poisoned mutex: the calling thread panics
LockPoisoned(c) ==
    /\ up /\ poisoned /\ MemFree(memLock)
    /\ \/ pc[c] = "w_insert"
       \/ pc[c] = "idle" /\ nQueries < MaxQueries
    /\ nQueries' = IF pc[c] = "idle" THEN nQueries + 1 ELSE nQueries
    /\ pc' = [pc EXCEPT ![c] = "idle"]
    /\ arg' = [arg EXCEPT ![c] = NoArg]
    /\ UNCHANGED <<build, up, walFile, walBuf, sstFiles, memtable, sstables, memLock,
                   poisoned, flushPc, flushSst, lastFlush, res, ackLog, walLog, walBufLog,
                   flushed, nWrites, nCrashes, nIoErrors>>

\* The threads inside get_stats, which holds the guard of self.sstables.lock()
\* from its first statement to its return
SstHolders == { c \in Clients : pc[c] \in {"s_dir", "s_mem"} }

\* sstables.lock() returns once no other thread holds the guard
SstFree == SstHolders = {}

\* query: the scan of the MemTable under its lock
QueryMem(c) ==
    /\ up /\ pc[c] = "idle" /\ nQueries < MaxQueries /\ MemFree(memLock) /\ ~poisoned
    /\ \E filter \in QueryInputs :
          arg' = [arg EXCEPT ![c] = [op |-> "query", filter |-> filter,
                                     partial |-> MemQuery(memtable, filter),
                                     acked |-> Len(ackLog), flushed |-> Len(flushed)]]
    /\ pc' = [pc EXCEPT ![c] = "q_sst"]
    /\ nQueries' = nQueries + 1
    /\ UNCHANGED <<build, up, walFile, walBuf, sstFiles, memtable, sstables, memLock,
                   poisoned, flushPc, flushSst, lastFlush, res, ackLog, walLog, walBufLog,
                   flushed, nWrites, nCrashes, nIoErrors>>

\* query: the SSTables under their lock, the merge, the sort and the dedup
QuerySst(c) ==
    /\ up /\ pc[c] = "q_sst" /\ SstFree
    /\ res' = [res EXCEPT ![c] = QueryResult(arg[c].partial, sstables, sstFiles,
                                             arg[c].filter, Checked)]
    /\ pc' = [pc EXCEPT ![c] = "q_done"]
    /\ UNCHANGED <<build, up, walFile, walBuf, sstFiles, memtable, sstables, memLock,
                   poisoned, flushPc, flushSst, lastFlush, arg, ackLog, walLog, walBufLog,
                   flushed, nWrites, nQueries, nCrashes, nIoErrors>>

\* query returns to its caller
QueryReturn(c) ==
    /\ up /\ pc[c] = "q_done"
    /\ pc' = [pc EXCEPT ![c] = "idle"]
    /\ arg' = [arg EXCEPT ![c] = NoArg]
    /\ res' = [res EXCEPT ![c] = NoResult]
    /\ UNCHANGED <<build, up, walFile, walBuf, sstFiles, memtable, sstables, memLock,
                   poisoned, flushPc, flushSst, lastFlush, ackLog, walLog, walBufLog,
                   flushed, nWrites, nQueries, nCrashes, nIoErrors>>

\* The flush thread wakes up, locks the MemTable and finds the threshold reached
FlushBegin ==
    /\ up /\ flushPc = "sleep" /\ MemFree(memLock) /\ ~poisoned
    /\ total_points(memtable) >= Threshold
    /\ memLock' = "flush"
    /\ flushPc' = "create"
    /\ UNCHANGED <<build, up, walFile, walBuf, sstFiles, memtable, sstables, poisoned,
                   flushSst, lastFlush, pc, arg, res, ackLog, walLog, walBufLog, flushed,
                   nWrites, nQueries, nCrashes, nIoErrors>>

\* SSTable::create returns Ok
FlushCreate ==
    /\ up /\ flushPc = "create"
    /\ \E ord \in CreateOrders(memtable) :
          \E created \in {SSTableCreate(memtable, ord, Checked)} :
              /\ ~created.panicked
              /\ sstFiles' = Append(sstFiles, created.bytes)
              /\ flushSst' = Some([file |-> Len(sstFiles) + 1, mmap |-> FALSE,
                                   series_index |-> created.series_index])
    /\ flushPc' = "push"
    /\ UNCHANGED <<build, up, walFile, walBuf, memtable, sstables, memLock, poisoned,
                   lastFlush, pc, arg, res, ackLog, walLog, walBufLog, flushed,
                   nWrites, nQueries, nCrashes, nIoErrors>>

\* SSTable::create panics in the codec: the flush thread dies holding the
\* MemTable lock, which poisons it
FlushCreatePanic ==
    /\ up /\ flushPc = "create"
    /\ \E ord \in CreateOrders(memtable) :
          \E created \in {SSTableCreate(memtable, ord, Checked)} :
              /\ created.panicked
              /\ sstFiles' = Append(sstFiles, created.partial)
    /\ flushPc' = "dead"
    /\ memLock' = "free"
    /\ poisoned' = TRUE
    /\ UNCHANGED <<build, up, walFile, walBuf, memtable, sstables, flushSst, lastFlush,
                   pc, arg, res, ackLog, walLog, walBufLog, flushed,
                   nWrites, nQueries, nCrashes, nIoErrors>>

\* SSTable::create returns Err (an I/O error): either no file was created or
\* the file is left without its index.  The Err arm runs and the lock is dropped.
FlushCreateErr ==
    /\ up /\ flushPc = "create" /\ nIoErrors < MaxIoErrors
    /\ \E ord \in CreateOrders(memtable) :
          \E created \in {SSTableCreate(memtable, ord, Checked)} :
              /\ ~created.panicked
              /\ sstFiles' \in {sstFiles, Append(sstFiles, created.unindexed)}
    /\ LET after == FlushErr([memtable |-> memtable, sstables |-> sstables,
                              walFile |-> walFile, walBuf |-> walBuf])
       IN  /\ memtable' = after.memtable
           /\ sstables' = after.sstables
           /\ walFile' = after.walFile
           /\ walBuf' = after.walBuf
    /\ lastFlush' = "err"
    /\ flushPc' = "sleep"
    /\ memLock' = "free"
    /\ nIoErrors' = nIoErrors + 1
    /\ UNCHANGED <<build, up, poisoned, flushSst, pc, arg, res, ackLog, walLog,
                   walBufLog, flushed, nWrites, nQueries, nCrashes>>

\* The Ok arm: sstables.lock().unwrap().push(sst); mem.clear()
FlushPush ==
    /\ up /\ flushPc = "push" /\ SstFree
    /\ sstables' = PushSst(sstables, flushSst[1])
    /\ memtable' = EmptyMap
    /\ flushed' = flushed \o MemEntries(memtable, Orders(DOMAIN memtable))
    /\ flushSst' = None
    /\ flushPc' = "clear"
    /\ UNCHANGED <<build, up, walFile, walBuf, sstFiles, memLock, poisoned, lastFlush,
                   pc, arg, res, ackLog, walLog, walBufLog, nWrites, nQueries, nCrashes,
                   nIoErrors>>

\* The Ok arm: wal.clear() (an Err is logged), then the lock is dropped
FlushClear ==
    /\ up /\ flushPc = "clear"
    /\ \E ok \in {TRUE} \cup (IF nIoErrors < MaxIoErrors THEN {FALSE} ELSE {}) :
          LET wal == wal_clear(walFile, walBuf, ok)
              log == wal_clear(walLog, walBufLog, ok)
          IN  /\ walFile' = wal.file
              /\ walBuf' = wal.buf
              /\ walLog' = log.file
              /\ walBufLog' = log.buf
              /\ nIoErrors' = IF ok THEN nIoErrors ELSE nIoErrors + 1
    /\ lastFlush' = "ok"
    /\ flushPc' = "sleep"
    /\ memLock' = "free"
    /\ UNCHANGED <<build, up, sstFiles, memtable, sstables, poisoned, flushSst, pc, arg,
                   res, ackLog, flushed, nWrites, nQueries, nCrashes>>

\* The process is killed: what is not on disk is gone
Crash ==
    /\ up /\ nCrashes < MaxCrashes
    /\ up' = FALSE
    /\ walBuf' = <<>>
    /\ walBufLog' = <<>>
    /\ flushed' = <<>>
    /\ memtable' = EmptyMap
    /\ sstables' = <<>>
    /\ memLock' = "free"
    /\ poisoned' = FALSE
    /\ flushPc' = "sleep"
    /\ flushSst' = None
    /\ lastFlush' = "none"
    /\ pc' = [c \in Clients |-> "idle"]
    /\ arg' = [c \in Clients |-> NoArg]
    /\ res' = [c \in Clients |-> NoResult]
    /\ nCrashes' = nCrashes + 1
    /\ UNCHANGED <<build, walFile, sstFiles, ackLog, walLog, nWrites, nQueries, nIoErrors>>

\* SimpleTSDB::open: the MemTable is rebuilt from the WAL and every SSTable
\* file that opens is loaded, in the order the directory lists them
Open ==
    /\ ~up
    /\ up' = TRUE
    /\ memtable' = OpenMemtable(EmptyMap, load_points(walFile))
    /\ \E order \in Orders(1..Len(sstFiles)) : sstables' = OpenSstables(sstFiles, order)
    /\ UNCHANGED <<build, walFile, walBuf, sstFiles, memLock, poisoned, flushPc, flushSst,
                   lastFlush, pc, arg, res, ackLog, walLog, walBufLog, flushed,
                   nWrites, nQueries, nCrashes, nIoErrors>>

\* The sizes of the files of the SSTable directory, summed
RECURSIVE TotalSize(_)
TotalSize(files) == IF files = <<>> THEN 0 ELSE Len(Head(files)) + TotalSize(Tail(files))

\* get_stats: self.sstables.lock().unwrap(), held until the function returns
StatsLock(c) ==
    /\ up /\ pc[c] = "idle" /\ nQueries < MaxQueries /\ SstFree
    /\ pc' = [pc EXCEPT ![c] = "s_dir"]
    /\ arg' = [arg EXCEPT ![c] = [op |-> "get_stats"]]
    /\ nQueries' = nQueries + 1
    /\ UNCHANGED <<build, up, walFile, walBuf, sstFiles, memtable, sstables, memLock,
                   poisoned, flushPc, flushSst, lastFlush, res, ackLog, walLog, walBufLog,
                   flushed, nWrites, nCrashes, nIoErrors>>

\* get_stats: the scan of the directory; the thread now stands at
\* self.memtable.lock() with the SSTable guard still alive
StatsReadDir(c) ==
    /\ up /\ pc[c] = "s_dir"
    /\ arg' = [arg EXCEPT ![c] = [op |-> "get_stats", sstable_count |-> Len(sstFiles),
                                  total_disk_size |-> TotalSize(sstFiles)]]
    /\ pc' = [pc EXCEPT ![c] = "s_mem"]
    /\ UNCHANGED <<build, up, walFile, walBuf, sstFiles, memtable, sstables, memLock,
                   poisoned, flushPc, flushSst, lastFlush, res, ackLog, walLog, walBufLog,
                   flushed, nWrites, nQueries, nCrashes, nIoErrors>>

\* get_stats: read_dir or metadata returns Err, and `?` returns it
StatsReadDirErr(c) ==
    /\ up /\ pc[c] = "s_dir" /\ nIoErrors < MaxIoErrors
    /\ pc' = [pc EXCEPT ![c] = "idle"]
    /\ arg' = [arg EXCEPT ![c] = NoArg]
    /\ nIoErrors' = nIoErrors + 1
    /\ UNCHANGED <<build, up, walFile, walBuf, sstFiles, memtable, sstables, memLock,
                   poisoned, flushPc, flushSst, lastFlush, res, ackLog, walLog, walBufLog,
                   flushed, nWrites, nQueries, nCrashes>>

\* get_stats: the MemTable is locked, its points are counted, Ok(DbStats) is
\* returned and both guards are dropped
StatsMem(c) ==
    /\ up /\ pc[c] = "s_mem" /\ MemFree(memLock) /\ ~poisoned
    /\ res' = [res EXCEPT ![c] = [status |-> "ok",
                                  value |-> [sstable_count |-> arg[c].sstable_count,
                                             total_disk_size |-> arg[c].total_disk_size,
                                             memtable_records |-> total_points(memtable)]]]
    /\ pc' = [pc EXCEPT ![c] = "q_done"]
    /\ UNCHANGED <<build, up, walFile, walBuf, sstFiles, memtable, sstables, memLock,
                   poisoned, flushPc, flushSst, lastFlush, arg, ackLog, walLog, walBufLog,
                   flushed, nWrites, nQueries, nCrashes, nIoErrors>>

\* get_stats: self.memtable.lock().unwrap() on the poisoned mutex panics; the
\* unwinding thread drops the SSTable guard
StatsPoisoned(c) ==
    /\ up /\ pc[c] = "s_mem" /\ MemFree(memLock) /\ poisoned
    /\ pc' = [pc EXCEPT ![c] = "idle"]
    /\ arg' = [arg EXCEPT ![c] = NoArg]
    /\ UNCHANGED <<build, up, walFile, walBuf, sstFiles, memtable, sstables, memLock,
                   poisoned, flushPc, flushSst, lastFlush, res, ackLog, walLog, walBufLog,
                   flushed, nWrites, nQueries, nCrashes, nIoErrors>>

Next ==
    \/ \E c \in Clients : WriteAppend(c)
    \/ \E c \in Clients : WriteAppendFail(c)
    \/ \E c \in Clients : WriteInsert(c)
    \/ \E c \in Clients : LockPoisoned(c)
    \/ \E c \in Clients : QueryMem(c)
    \/ \E c \in Clients : QuerySst(c)
    \/ \E c \in Clients : QueryReturn(c)
    \/ FlushBegin
    \/ FlushCreate
    \/ FlushCreatePanic
    \/ FlushCreateErr
    \/ FlushPush
    \/ FlushClear
    \/ Crash
    \/ Open

Spec == Init /\ [][Next]_vars

\* SSTable files in the layout SSTable::open reads: the series count, the index
\* entries, then the payloads the entries point to.
\* The payload of a series that holds one point with the field v
TablePayload(point) ==
    MultiFieldCompress(AddPoints(MultiFieldBlockNew, <<point>>), <<StrV>>, FALSE).bytes

\* The index of a table of two series whose payloads follow each other from pos
TableIndex(pos, len1, len2) ==
    IndexEntry(SeriesKey(StrM, NoTags), <<>>, pos, len1)
    \o IndexEntry(SeriesKey(StrM, TagsHA), <<StrH>>, pos + len1, len2)

\* A table of two series, and the same file damaged in five ways
TableImages ==
    Only({ Only({ Only({
        [good |-> good,
         short |-> SubSeq(good, 1, 3),                 \* fewer than 4 bytes
         truncated |-> SubSeq(good, 1, 10),            \* ends inside the first index entry
         badjson |-> Overlay(good, 8, <<0>>),          \* the first key is no JSON
         cut |-> SubSeq(good, 1, Len(good) - 1),       \* the last payload ends past the file
         badblock |-> Overlay(good, start, <<2>>)]     \* the first block announces a field it lacks
        : good \in {u32_to_le_bytes(2) \o TableIndex(start, Len(p1), Len(p2)) \o p1 \o p2} })
        : start \in {4 + Len(TableIndex(0, Len(p1), Len(p2)))} })
        : p1 \in {TablePayload(DataPoint(U64Of(1), NoTags, FieldV(F64Two)))},
          p2 \in {TablePayload(DataPoint(U64Of(2), TagsHA, FieldV(F64Two)))} })

(***************************************************************************)
(* The library called directly, the way the repository's unit tests call   *)
(* it: client c1 calls one function on an input and keeps the result.  The *)
(* store itself stays as SimpleTSDB::open left it.                         *)
(***************************************************************************)
MaxPoints == 2

storeVars == <<build, up, walFile, walBuf, sstFiles, memtable, sstables, memLock, poisoned,
               flushPc, flushSst, lastFlush, ackLog, walLog, walBufLog, flushed,
               nWrites, nQueries, nCrashes, nIoErrors>>

\* The call of client c1 and what it returned
Called(op, input, result) ==
    /\ pc["c1"] = "idle"
    /\ pc' = [pc EXCEPT !["c1"] = "returned"]
    /\ arg' = [arg EXCEPT !["c1"] = [op |-> op, input |-> input]]
    /\ res' = [res EXCEPT !["c1"] = result]
    /\ UNCHANGED storeVars

SeqsUpTo(S, n) == UNION { [1..k -> S] : k \in 1..n }

F64NaN == <<0, 0, 0, 32760>>     \* f64::NAN.to_bits() = 0x7FF8000000000000

\* Sequences of (timestamp, f64 bits) with non-decreasing timestamps
GorillaInputs ==
    { s \in SeqsUpTo({U64Of(0), U64Of(1), U64Of(2)} \X {U64Zero, F64One, F64NaN}, MaxPoints) :
        \A i \in 1..(Len(s) - 1) : U64Le(s[i][1], s[i + 1][1]) }

\* TimeSeriesBlock::compress(points) followed by TimeSeriesBlock::decompress
GorillaRoundTrip ==
    /\ pc["c1"] = "idle"
    /\ \E points \in GorillaInputs : \E block \in {compress(points, Checked)} :
           Called("gorilla", points,
                  IF block.panicked THEN [status |-> "panic", points |-> <<>>]
                  ELSE decompress(block.bytes, Checked))

\* (value, n) pairs: widths that end on and off a byte boundary, and the full 64
BitInputs == SeqsUpTo({U64Of(5), U64Max} \X {1, 7, 60, 64}, MaxPoints)

\* write_bits for each item in turn
RECURSIVE WriteAll(_, _, _)
WriteAll(w, items, checked) ==
    IF items = <<>> THEN w
    ELSE WriteAll(write_bits(w, Head(items)[1], Head(items)[2], checked), Tail(items), checked)

\* read_bits for each width in turn, up to the first one that is not Ok
RECURSIVE ReadAll(_, _, _)
ReadAll(r, items, checked) ==
    IF items = <<>> THEN [status |-> "ok", values |-> <<>>]
    ELSE Only({ IF v.status # "ok" THEN [status |-> v.status, values |-> <<>>]
                ELSE Only({ [status |-> rest.status,
                             values |-> IF rest.status = "ok" THEN <<v.value>> \o rest.values
                                        ELSE <<>>]
                            : rest \in {ReadAll(v.r, Tail(items), checked)} })
                : v \in {read_bits(r, Head(items)[2], checked)} })

\* BitWriter::write_bits for each item and flush, then BitReader::read_bits of
\* the same widths over the bytes written
BitIoRoundTrip ==
    /\ pc["c1"] = "idle"
    /\ \E items \in BitInputs : \E w \in {BitWriterFlush(WriteAll(BitWriterNew, items, Checked))} :
           Called("bitio", items,
                  IF w.panicked THEN [status |-> "panic", values |-> <<>>]
                  ELSE ReadAll(BitReaderNew(w.out), items, Checked))

\* MemTable snapshots: the MemTable after the writes of up to MaxPoints points
SnapshotInputs ==
    { MemInsertAll(EmptyMap, StrM, points) : points \in SeqsUpTo(PointInputs, MaxPoints) }

FullRange == QueryFilter(None, U64Zero, U64Max, EmptyMap, <<>>)

\* SSTable::create of a snapshot, SSTable::open of the file it wrote and
\* SSTable::query with the filter that excludes nothing
SSTableRoundTrip ==
    /\ pc["c1"] = "idle"
    /\ \E snapshot \in SnapshotInputs : \E ord \in CreateOrders(snapshot) :
         \E created \in {SSTableCreate(snapshot, ord, Checked)} :
           \E opened \in {SSTableOpen(created.bytes)} :
             Called("sstable", snapshot,
                    IF created.panicked
                    THEN [status |-> "panic", created |-> created, results |-> EmptyMap]
                    ELSE IF ~opened.ok
                    THEN [status |-> "err", created |-> created, results |-> EmptyMap]
                    ELSE Only({ [status |-> q.status, created |-> created, results |-> q.results]
                                : q \in {SSTableQuery(created.bytes, opened.series_index,
                                                      FullRange, Checked)} }))

\* WAL files that end inside their last record: the records the WAL wrote for
\* a sequence of points, cut at every offset inside the last one
TruncatedWals ==
    UNION { UNION { { [kind |-> "truncated", points |-> points,
                       file |-> SubSeq(head \o last, 1, Len(head) + n)]
                      : n \in 1..(Len(last) - 1) }
                    : head \in BatchEncodings(SubSeq(points, 1, Len(points) - 1)),
                      last \in RecordEncodings(points[Len(points)]) }
            : points \in SeqsUpTo(PointInputs, MaxPoints) }

StrBad == <<255>>                \* a byte that is not UTF-8

\* A record in the layout load_points reads (little-endian lengths, counts
\* and values), its tags and fields as sequences of <<key, value>> pairs
LeRecord(r) ==
    u64_to_le_bytes(r.timestamp)
    \o u32_to_le_bytes(Len(r.tags))
    \o ConcatIn([i \in 1..Len(r.tags) |->
                    u32_to_le_bytes(Len(r.tags[i][1])) \o r.tags[i][1]
                    \o u32_to_le_bytes(Len(r.tags[i][2])) \o r.tags[i][2]],
                [i \in 1..Len(r.tags) |-> i])
    \o u32_to_le_bytes(Len(r.fields))
    \o ConcatIn([i \in 1..Len(r.fields) |->
                    u32_to_le_bytes(Len(r.fields[i][1])) \o r.fields[i][1]
                    \o u64_to_le_bytes(r.fields[i][2])],
                [i \in 1..Len(r.fields) |-> i])

\* WAL files of two records, the first with strings that may not be UTF-8
CorruptWals ==
    { [kind |-> "utf8", records |-> <<first, second>>,
       file |-> LeRecord(first) \o LeRecord(second)]
      : first \in [timestamp : {U64Of(1)},
                   tags : { <<>>, <<<<StrH, StrA>>>>, <<<<StrBad, StrA>>>>, <<<<StrH, StrBad>>>>,
                            <<<<StrBad, StrA>>, <<StrH, StrA>>>>,
                            <<<<StrH, StrBad>>, <<StrA, StrA>>>> },
                   fields : { <<>>, <<<<StrV, F64One>>>>, <<<<StrBad, F64One>>>>,
                              <<<<StrBad, F64One>>, <<StrV, F64Two>>>> }],
        second \in {[timestamp |-> U64Of(2), tags |-> <<>>, fields |-> <<<<StrV, F64One>>>>]} }

\* Wal::load_points on a file; no read fails with anything but the end of file
WalLoad ==
    /\ pc["c1"] = "idle"
    /\ \E input \in TruncatedWals \cup CorruptWals :
           Called("wal_load", input, [status |-> "ok", records |-> load_points(input.file)])

\* a < b for strings (Ord for String: bytewise, a proper prefix first)
RECURSIVE StrLess(_, _)
StrLess(a, b) ==
    IF b = <<>> THEN FALSE
    ELSE IF a = <<>> THEN TRUE
    ELSE IF Head(a) # Head(b) THEN Head(a) < Head(b)
    ELSE StrLess(Tail(a), Tail(b))

\* The tag keys hashed in the order the map iterates them
UnsortedTags(tags, order) == order

\* sorted_tags.sort_by(|a, b| a.0.cmp(b.0)) on the tags collected in the
\* map's iteration order: a stable insertion by key
RECURSIVE SortedTags(_, _)
SortedTags(tags, order) ==
    IF order = <<>> THEN <<>>
    ELSE Only({ Only({ SubSeq(rest, 1, n) \o <<Head(order)>> \o SubSeq(rest, n + 1, Len(rest))
                       : n \in {Cardinality({i \in 1..Len(rest) :
                                                ~StrLess(Head(order), rest[i])})} })
                : rest \in {SortedTags(tags, Tail(order))} })

\* What Hash for SeriesKey feeds the hasher: str::hash writes the bytes and 0xFF
SeriesKeyHash(key, order) ==
    key.measurement \o <<255>>
    \o ConcatIn([k \in DOMAIN key.tags |-> k \o <<255>> \o key.tags[k] \o <<255>>],
                SortedTags(key.tags, order))

\* The derived PartialEq: the measurements are equal and so are the maps (same
\* length, every entry of one found in the other with an equal value)
SeriesKeyEq(a, b) ==
    /\ a.measurement = b.measurement
    /\ Cardinality(DOMAIN a.tags) = Cardinality(DOMAIN b.tags)
    /\ \A k \in DOMAIN a.tags : k \in DOMAIN b.tags /\ a.tags[k] = b.tags[k]

\* SeriesKey::new(measurement) followed by add_tag for every pair in turn
RECURSIVE AddTags(_, _)
AddTags(key, pairs) ==
    IF pairs = <<>> THEN key
    ELSE AddTags([key EXCEPT !.tags = MapInsert(key.tags, Head(pairs)[1], Head(pairs)[2])],
                 Tail(pairs))

StrR == <<114>>                  \* "r"

\* Tags added in some order: up to two pairs with different keys
TagSequences ==
    {<<>>} \cup { s \in SeqsUpTo({StrH, StrR} \X {StrA, StrV}, 2) :
                    Len(s) = 2 => s[1][1] # s[2][1] }

\* Two keys built by add_tag, hashed and compared, and the number of MemTable
\* series after mem.entry(a) and mem.entry(b): entry finds a key that hashes
\* alike and is equal
SeriesKeyIdentity ==
    /\ pc["c1"] = "idle"
    /\ \E ma \in {StrM, StrDefault}, mb \in {StrM, StrDefault}, pa \in TagSequences,
          pb \in TagSequences :
         \E a \in {AddTags(SeriesKey(ma, EmptyMap), pa)}, b \in {AddTags(SeriesKey(mb, EmptyMap), pb)} :
           \E oa \in Orders(DOMAIN a.tags), ob \in Orders(DOMAIN b.tags) :
             \E ha \in {SeriesKeyHash(a, oa)}, hb \in {SeriesKeyHash(b, ob)} :
               Called("series_key",
                      [a |-> [measurement |-> ma, pairs |-> pa],
                       b |-> [measurement |-> mb, pairs |-> pb]],
                      [eq |-> SeriesKeyEq(a, b), hash_a |-> ha, hash_b |-> hb,
                       series |-> IF ha = hb /\ SeriesKeyEq(a, b) THEN 1 ELSE 2])

\* MemTables after up to MaxPoints writes under two measurements
RECURSIVE MemAfter(_, _)
MemAfter(mem, writes) ==
    IF writes = <<>> THEN mem
    ELSE MemAfter(MemInsertAll(mem, Head(writes)[1], <<Head(writes)[2]>>), Tail(writes))

StoreInputs ==
    [writes : SeqsUpTo({StrM, StrDefault} \X PointInputs, MaxPoints),
     files : {<<>>, <<TableImages.good>>}]

FilterInputs ==
    { QueryFilter(m, range[1], range[2], tags, <<>>) :
        m \in {None, Some(StrM), Some(StrDefault)},
        range \in {<<U64Zero, U64Max>>, <<U64Of(1), U64Of(1)>>, <<U64Of(1), U64Of(2)>>,
                   <<U64Of(2), U64Of(2)>>},
        tags \in {EmptyMap, TagsHA, MapInsert(EmptyMap, StrH, StrV)} }

\* SimpleTSDB::query on a store that holds a MemTable and the SSTables opened
\* from its files; `full` is the answer to the same filter over the whole
\* time range
QueryStore ==
    /\ pc["c1"] = "idle"
    /\ \E store \in StoreInputs, filter \in FilterInputs :
         \E mem \in {MemAfter(EmptyMap, store.writes)},
            ssts \in {OpenSstables(store.files, [i \in 1..Len(store.files) |-> i])} :
           \E ranged \in {QueryResult(MemQuery(mem, filter), ssts, store.files, filter, Checked)},
              whole \in {[filter EXCEPT !.time_range = <<U64Zero, U64Max>>]} :
             Called("query", [writes |-> store.writes, files |-> store.files, filter |-> filter],
                    [status |-> ranged.status, value |-> ranged.value,
                     full |-> QueryResult(MemQuery(mem, whole), ssts, store.files, whole,
                                          Checked).value])

(***************************************************************************)
(* TsdbServer::handle_connection and process_command (src/server.rs).      *)
(* A reply is the text written to the socket, with the database call whose *)
(* rows precede the text (a GET or a QUERY); a parsed f64 is kept as the   *)
(* token it was read from.                                                 *)
(***************************************************************************)
\* The UTF-8 bytes of the message texts of process_command, by the place
\* that returns them
ErrorMessages ==
    [ empty |->   \* server.rs:78
          <<231, 169, 186, 229, 145, 189, 228, 187, 164>>,
      put_timestamp |->   \* server.rs:87
          <<230, 151, 182, 233, 151, 180, 230, 136, 179, 229, 191, 133, 233, 161, 187, 230, 152, 175, 230, 149, 176, 229, 173, 151>>,
      put_value |->   \* server.rs:92
          <<229, 128, 188, 229, 191, 133, 233, 161, 187, 230, 152, 175, 230, 181, 174, 231, 130, 185, 230, 149, 176>>,
      put_format |->   \* server.rs:99
          <<230, 160, 188, 229, 188, 143, 233, 148, 153, 232, 175, 175, 239, 188, 140, 229, 186, 148, 228, 184, 186, 32, 80, 85, 84, 32, 60, 116, 105, 109, 101, 115, 116, 97, 109, 112, 62, 32, 60, 118, 97, 108, 117, 101, 62>>,
      insert_format |->   \* server.rs:106
          <<230, 160, 188, 229, 188, 143, 233, 148, 153, 232, 175, 175, 239, 188, 140, 229, 186, 148, 228, 184, 186, 32, 73, 78, 83, 69, 82, 84, 32, 109, 101, 97, 115, 117, 114, 101, 109, 101, 110, 116, 44, 116, 97, 103, 115, 32, 102, 105, 101, 108, 100, 115, 32, 116, 105, 109, 101, 115, 116, 97, 109, 112>>,
      insert_field |->   \* server.rs:138
          <<229, 173, 151, 230, 174, 181, 229, 128, 188, 229, 191, 133, 233, 161, 187, 230, 152, 175, 230, 149, 176, 229, 173, 151, 58, 32>>,
      insert_timestamp |->   \* server.rs:146
          <<230, 151, 182, 233, 151, 180, 230, 136, 179, 229, 191, 133, 233, 161, 187, 230, 152, 175, 230, 149, 180, 230, 149, 176>>,
      get_start |->   \* server.rs:168
          <<232, 181, 183, 229, 167, 139, 230, 151, 182, 233, 151, 180, 230, 136, 179, 229, 191, 133, 233, 161, 187, 230, 152, 175, 230, 149, 176, 229, 173, 151>>,
      get_end |->   \* server.rs:173
          <<231, 187, 147, 230, 157, 159, 230, 151, 182, 233, 151, 180, 230, 136, 179, 229, 191, 133, 233, 161, 187, 230, 152, 175, 230, 149, 176, 229, 173, 151>>,
      get_format |->   \* server.rs:187
          <<230, 160, 188, 229, 188, 143, 233, 148, 153, 232, 175, 175, 239, 188, 140, 229, 186, 148, 228, 184, 186, 32, 71, 69, 84, 32, 60, 115, 116, 97, 114, 116, 95, 116, 115, 62, 32, 60, 101, 110, 100, 95, 116, 115, 62>>,
      query_format |->   \* server.rs:194
          <<230, 160, 188, 229, 188, 143, 233, 148, 153, 232, 175, 175, 239, 188, 140, 229, 186, 148, 228, 184, 186, 32, 81, 85, 69, 82, 89, 32, 109, 101, 97, 115, 117, 114, 101, 109, 101, 110, 116, 44, 116, 97, 103, 115, 32, 102, 105, 101, 108, 100, 115, 32, 115, 116, 97, 114, 116, 95, 116, 115, 32, 101, 110, 100, 95, 116, 115>>,
      query_start |->   \* server.rs:203
          <<232, 181, 183, 229, 167, 139, 230, 151, 182, 233, 151, 180, 230, 136, 179, 229, 191, 133, 233, 161, 187, 230, 152, 175, 230, 149, 180, 230, 149, 176>>,
      query_end |->   \* server.rs:209
          <<231, 187, 147, 230, 157, 159, 230, 151, 182, 233, 151, 180, 230, 136, 179, 229, 191, 133, 233, 161, 187, 230, 152, 175, 230, 149, 180, 230, 149, 176>>,
      unknown |->   \* server.rs:268
          <<230, 156, 170, 231, 159, 165, 229, 145, 189, 228, 187, 164, 32, 39>> ]

StrErrorHead == <<69, 82, 82, 79, 82, 58, 32>>      \* "ERROR: "
StrOkLine == <<79, 75, 10>>                         \* "OK\n"

ErrorReply(message) == [rows |-> None, text |-> StrErrorHead \o message \o <<10>>]
OkReply(rows) == [rows |-> rows, text |-> StrOkLine]

\* char::is_whitespace for one-byte characters
IsWhitespace(b) == b \in {9, 10, 11, 12, 13, 32}

\* str::split_whitespace: the maximal runs of bytes that are not white space
RECURSIVE SplitWhitespace(_, _)
SplitWhitespace(bytes, word) ==
    IF bytes = <<>> THEN (IF word = <<>> THEN <<>> ELSE <<word>>)
    ELSE IF IsWhitespace(Head(bytes))
         THEN (IF word = <<>> THEN <<>> ELSE <<word>>) \o SplitWhitespace(Tail(bytes), <<>>)
         ELSE SplitWhitespace(Tail(bytes), Append(word, Head(bytes)))

\* str::split(sep): the pieces between separators, empty pieces included
RECURSIVE Split(_, _, _)
Split(bytes, sep, word) ==
    IF bytes = <<>> THEN <<word>>
    ELSE IF Head(bytes) = sep THEN <<word>> \o Split(Tail(bytes), sep, <<>>)
         ELSE Split(Tail(bytes), sep, Append(word, Head(bytes)))

\* str::to_uppercase, for one-byte characters
ToUppercase(word) ==
    [i \in 1..Len(word) |-> IF word[i] \in 97..122 THEN word[i] - 32 ELSE word[i]]

IsDigits(word) == word # <<>> /\ \A i \in 1..Len(word) : word[i] \in 48..57

RECURSIVE Decimal(_, _)
Decimal(digits, acc) ==
    IF digits = <<>> THEN acc ELSE Decimal(Tail(digits), acc * 10 + Head(digits) - 48)

\* str::parse::<u64>: an optional '+' and at least one digit, nothing else
\* (the tokens of the model are too short to overflow)
ParseU64(word) ==
    LET digits == IF word # <<>> /\ Head(word) = 43 THEN Tail(word) ELSE word
    IN  IF IsDigits(digits) THEN Some(U64Of(Decimal(digits, 0))) ELSE None

\* str::parse::<f64>: an optional sign, then inf, infinity or nan in any case,
\* or digits with at most one '.' and at least one digit, and an optional
\* exponent of 'e', an optional sign and digits
ParseF64(word) ==
    LET body == IF word # <<>> /\ Head(word) \in {43, 45} THEN Tail(word) ELSE word
        es == { i \in 1..Len(body) : body[i] \in {69, 101} }
        e == IF es = {} THEN Len(body) + 1 ELSE CHOOSE i \in es : \A j \in es : i <= j
        mantissa == SubSeq(body, 1, e - 1)
        exponent == SubSeq(body, e + 1, Len(body))
        digits == IF exponent # <<>> /\ Head(exponent) \in {43, 45}
                  THEN Tail(exponent) ELSE exponent
        dots == { i \in 1..Len(mantissa) : mantissa[i] = 46 }
        named == ToUppercase(body) \in { <<73, 78, 70>>, <<78, 65, 78>>,
                                         <<73, 78, 70, 73, 78, 73, 84, 89>> }
        number == /\ Cardinality(dots) <= 1
                  /\ \E i \in 1..Len(mantissa) : mantissa[i] \in 48..57
                  /\ \A i \in 1..Len(mantissa) : mantissa[i] \in 48..57 \/ i \in dots
                  /\ es = {} \/ IsDigits(digits)
    IN  IF named \/ number THEN Some(word) ELSE None

\* The tags of "measurement,tag=val,...": every piece after the first that
\* splits at '=' in two (server.rs:120-125, 223-228)
RECURSIVE TagPairs(_, _)
TagPairs(pieces, tags) ==
    IF pieces = <<>> THEN tags
    ELSE LET kv == Split(Head(pieces), 61, <<>>)
         IN  TagPairs(Tail(pieces),
                      IF Len(kv) = 2 THEN MapInsert(tags, kv[1], kv[2]) ELSE tags)

\* The fields of "field=val,...": stops at the first value that is no f64
RECURSIVE FieldPairs(_, _)
FieldPairs(pieces, fields) ==
    IF pieces = <<>> THEN [ok |-> TRUE, fields |-> fields]
    ELSE LET kv == Split(Head(pieces), 61, <<>>)
         IN  IF Len(kv) # 2 THEN FieldPairs(Tail(pieces), fields)
             ELSE IF ParseF64(kv[2]) = None THEN [ok |-> FALSE, bad |-> kv[2]]
             ELSE FieldPairs(Tail(pieces), MapInsert(fields, kv[1], ParseF64(kv[2])[1]))

\* What process_command returns: Ok(reply) with the database call it made,
\* or the database's Err when the call fails
Replied(reply) == [status |-> "ok", reply |-> reply, calls |-> <<>>]
DbCalled(call, rows, db_ok) ==
    IF db_ok THEN [status |-> "ok", reply |-> OkReply(IF rows THEN Some(call) ELSE None),
                   calls |-> <<call>>]
    ELSE [status |-> "err", calls |-> <<call>>]

CommandPut(parts, db_ok) ==
    IF Len(parts) # 3 THEN Replied(ErrorReply(ErrorMessages.put_format))
    ELSE IF ParseU64(parts[2]) = None THEN Replied(ErrorReply(ErrorMessages.put_timestamp))
    ELSE IF ParseF64(parts[3]) = None THEN Replied(ErrorReply(ErrorMessages.put_value))
    ELSE DbCalled([op |-> "put", ts |-> ParseU64(parts[2])[1], value |-> ParseF64(parts[3])[1]],
                  FALSE, db_ok)

CommandInsert(parts, db_ok) ==
    IF Len(parts) # 4 THEN Replied(ErrorReply(ErrorMessages.insert_format))
    ELSE LET mt_parts == Split(parts[2], 44, <<>>)
             fields == FieldPairs(Split(parts[3], 44, <<>>), EmptyMap)
         IN  IF ~fields.ok
             THEN Replied(ErrorReply(ErrorMessages.insert_field \o fields.bad))
             ELSE IF ParseU64(parts[4]) = None
             THEN Replied(ErrorReply(ErrorMessages.insert_timestamp))
             ELSE DbCalled([op |-> "write_point", measurement |-> mt_parts[1],
                            point |-> DataPoint(ParseU64(parts[4])[1],
                                                TagPairs(Tail(mt_parts), EmptyMap),
                                                fields.fields)],
                           FALSE, db_ok)

CommandGet(parts, db_ok) ==
    IF Len(parts) # 3 THEN Replied(ErrorReply(ErrorMessages.get_format))
    ELSE IF ParseU64(parts[2]) = None THEN Replied(ErrorReply(ErrorMessages.get_start))
    ELSE IF ParseU64(parts[3]) = None THEN Replied(ErrorReply(ErrorMessages.get_end))
    ELSE DbCalled([op |-> "legacy_query", start |-> ParseU64(parts[2])[1],
                   end |-> ParseU64(parts[3])[1]], TRUE, db_ok)

CommandQuery(parts, db_ok) ==
    IF Len(parts) < 4 THEN Replied(ErrorReply(ErrorMessages.query_format))
    ELSE IF ParseU64(parts[4]) = None THEN Replied(ErrorReply(ErrorMessages.query_start))
    ELSE IF Len(parts) > 4 /\ ParseU64(parts[5]) = None
    THEN Replied(ErrorReply(ErrorMessages.query_end))
    ELSE LET mt_parts == Split(parts[2], 44, <<>>)
         IN  DbCalled([op |-> "query",
                       filter |-> QueryFilter(Some(mt_parts[1]), ParseU64(parts[4])[1],
                                              IF Len(parts) > 4 THEN ParseU64(parts[5])[1]
                                              ELSE U64Max,
                                              TagPairs(Tail(mt_parts), EmptyMap),
                                              IF parts[3] = <<42>> THEN <<>>
                                              ELSE Split(parts[3], 44, <<>>))],
                      TRUE, db_ok)

\* TsdbServer::process_command(cmd, db); db_ok tells whether the database
\* call of the command returns Ok
process_command(cmd, db_ok) ==
    LET parts == SplitWhitespace(cmd, <<>>)
        command == IF parts = <<>> THEN <<>> ELSE ToUppercase(parts[1])
    IN  IF parts = <<>> THEN Replied(ErrorReply(ErrorMessages.empty))
        ELSE IF command = <<80, 85, 84>> THEN CommandPut(parts, db_ok)
        ELSE IF command = <<73, 78, 83, 69, 82, 84>> THEN CommandInsert(parts, db_ok)
        ELSE IF command = <<71, 69, 84>> THEN CommandGet(parts, db_ok)
        ELSE IF command = <<81, 85, 69, 82, 89>> THEN CommandQuery(parts, db_ok)
        ELSE Replied(ErrorReply(ErrorMessages.unknown \o parts[1] \o <<39>>))

\* AsyncBufReadExt::read_line: the bytes up to and including the first '\n',
\* or what is left of the stream
RECURSIVE ReadLine(_)
ReadLine(stream) ==
    IF stream = <<>> THEN <<>>
    ELSE IF Head(stream) = 10 THEN <<10>>
         ELSE <<Head(stream)>> \o ReadLine(Tail(stream))

\* TsdbServer::handle_connection on the bytes a client sends before it closes
\* its side; db_err is the database call that returns Err (0: none does).
\* The loop ends with Ok at the end of the stream, and with Err when
\* read_line meets bytes that are not UTF-8 or when the command returns Err.
RECURSIVE handle_connection(_, _, _)
handle_connection(stream, db_err, done) ==
    IF stream = <<>> THEN [done EXCEPT !.end = "eof"]
    ELSE
         Only({ IF ~IsUtf8(line) THEN [done EXCEPT !.end = "err"]
                ELSE Only({ IF out.status = "err"
                            THEN [done EXCEPT !.end = "err", !.calls = @ \o out.calls]
                            ELSE handle_connection(
                                    SubSeq(stream, Len(line) + 1, Len(stream)), db_err,
                                    [done EXCEPT !.replies = Append(@, out.reply),
                                                 !.calls = @ \o out.calls])
                            : out \in {process_command(line, db_err # Len(done.calls) + 1)} })
                : line \in {ReadLine(stream)} })

CommandLines ==
    { [kind |-> "ok", text |->   \* PUT 1 1.0\n
          <<80, 85, 84, 32, 49, 32, 49, 46, 48, 10>>],
      [kind |-> "timestamp", text |->   \* PUT abc 1.0\n
          <<80, 85, 84, 32, 97, 98, 99, 32, 49, 46, 48, 10>>],
      [kind |-> "value", text |->   \* PUT 1 x\n
          <<80, 85, 84, 32, 49, 32, 120, 10>>],
      [kind |-> "tokens", text |->   \* PUT 1\n
          <<80, 85, 84, 32, 49, 10>>],
      [kind |-> "empty", text |->   \* \n
          <<10>>],
      [kind |-> "unknown", text |->   \* FOO 1 2\n
          <<70, 79, 79, 32, 49, 32, 50, 10>>],
      [kind |-> "ok", text |->   \* GET 1 2\n
          <<71, 69, 84, 32, 49, 32, 50, 10>>],
      [kind |-> "tokens", text |->   \* GET 1 2 3\n
          <<71, 69, 84, 32, 49, 32, 50, 32, 51, 10>>],
      [kind |-> "ok", text |->   \* QUERY m * 1\n
          <<81, 85, 69, 82, 89, 32, 109, 32, 42, 32, 49, 10>>],
      [kind |-> "tokens", text |->   \* QUERY m *\n
          <<81, 85, 69, 82, 89, 32, 109, 32, 42, 10>>],
      [kind |-> "tokens", text |->   \* QUERY m * 1 2 3\n
          <<81, 85, 69, 82, 89, 32, 109, 32, 42, 32, 49, 32, 50, 32, 51, 10>>],
      [kind |-> "ok", text |->   \* INSERT m,h=a v=2 1\n
          <<73, 78, 83, 69, 82, 84, 32, 109, 44, 104, 61, 97, 32, 118, 61, 50, 32, 49, 10>>],
      [kind |-> "value", text |->   \* INSERT m v=x 1\n
          <<73, 78, 83, 69, 82, 84, 32, 109, 32, 118, 61, 120, 32, 49, 10>>],
      [kind |-> "timestamp", text |->   \* INSERT m v=2 -1\n
          <<73, 78, 83, 69, 82, 84, 32, 109, 32, 118, 61, 50, 32, 45, 49, 10>>],
      [kind |-> "utf8", text |-> StrBad \o <<10>>] }

MaxLines == 2

RECURSIVE Concat(_)
Concat(lines) == IF lines = <<>> THEN <<>> ELSE Head(lines).text \o Concat(Tail(lines))

\* One connection: a client sends up to MaxLines command lines and closes
Connection ==
    /\ pc["c1"] = "idle"
    /\ \E lines \in SeqsUpTo(CommandLines, MaxLines), db_err \in 0..MaxLines :
          Called("connection", [lines |-> lines, db_err |-> db_err],
                 handle_connection(Concat(lines), db_err,
                                   [end |-> "open", replies |-> <<>>, calls |-> <<>>]))

\* Blocks given to TimeSeriesBlock::decompress: a count prefix of 0 to
\* MaxPoints + 1 before the bitstream compress writes for up to MaxPoints
\* points or before nothing, and inputs of fewer than 4 bytes
BlockInputs ==
    { u32_to_le_bytes(count) \o stream :
        count \in 0..(MaxPoints + 1),
        stream \in { <<>> } \cup
                   { Only({ SubSeq(b, 5, Len(b)) : b \in {compress(points, FALSE).bytes} }) :
                       points \in GorillaInputs } }
    \cup { <<>>, <<1>>, <<1, 0, 0>> }

\* TimeSeriesBlock::decompress(data), with what GorillaDecoder::new and
\* decode_all make of the bytes after the prefix (counted up to MaxPoints + 2)
Decompress ==
    /\ pc["c1"] = "idle"
    /\ \E data \in BlockInputs :
         \E out \in {decompress(data, Checked)},
            decoder \in {GorillaDecoderNew(SubSeq(data, 5, Len(data)), Checked)} :
           Called("decompress", data,
                  [status |-> out.status, points |-> out.points,
                   decoded |-> IF decoder.status # "ok"
                               THEN [status |-> decoder.status, points |-> <<>>]
                               ELSE decode_all(decoder, <<>>, MaxPoints + 1, Checked)])

\* An i64 of small magnitude, in two's complement
I64Of(n) == IF n >= 0 THEN U64Of(n) ELSE U64Sub(U64Zero, U64Of(-n))

\* Delta-of-deltas at the ends of and inside the four buckets of encode
DodInputs ==
    { I64Of(n) : n \in { -63, -1, 1, 63, 64,
                         -255, -64, 65, 255, 256,
                         -2047, -256, 257, 2047, 2048,
                         -2048, 2049, 100000, -100000, 2147483647 } }
    \cup { <<0, 32768, 65535, 65535>>,      \* -2^31
           <<0, 32768, 0, 0>> }              \* 2^31

\* The delta-of-delta part of encode on a new BitWriter, flush, and the
\* delta-of-delta part of decode on the bytes written
DodRoundTrip ==
    /\ pc["c1"] = "idle"
    /\ \E delta_of_delta \in DodInputs :
         \E w \in {BitWriterFlush(EncodeDod(BitWriterNew, delta_of_delta, Checked))} :
           \E read \in {ReadDod(BitReaderNew(w.out), Checked)} :
             Called("dod", delta_of_delta,
                    IF w.panicked THEN [status |-> "panic", dod |-> U64Zero, bytes |-> w.out]
                    ELSE [status |-> read.status, dod |-> BitsU64(read.dod), bytes |-> w.out])

\* Non-zero XORs of two values' bits: up to 31 and more than 31 leading
\* zeros, one to all 64 significant bits
XorInputs ==
    { F64One, F64NaN,
      <<0, 0, 0, 32768>>,        \* bit 63 alone: 0 leading zeros, 1 significant bit
      <<0, 0, 1, 0>>,            \* bit 32 alone: 31 leading zeros
      <<0, 32768, 0, 0>>,        \* bit 31 alone: 32 leading zeros
      <<1, 0, 0, 0>>,            \* bit 0 alone: 63 leading zeros
      <<3, 0, 1, 0>>,            \* bits 32, 1 and 0: 33 significant bits
      <<1, 0, 0, 32768>>,        \* bits 63 and 0: 64 significant bits
      U64Max }

\* The XOR part of encode on a new BitWriter, flush, and the XOR part of
\* decode on the bytes written, the previous value's bits being 0
XorRoundTrip ==
    /\ pc["c1"] = "idle"
    /\ \E xor \in XorInputs :
         \E w \in {BitWriterFlush(EncodeXor(BitWriterNew, xor, Checked))} :
           \E read \in {ReadXor(BitReaderNew(w.out), U64Zero, Checked)} :
             Called("xor", xor,
                    IF w.panicked THEN [status |-> "panic", value |-> U64Zero, bytes |-> w.out]
                    ELSE [status |-> read.status, value |-> read.value, bytes |-> w.out])

\* A byte source of 0 to 2 bytes, the bits read before the call (0: none)
\* and the width of the call
ReadInputs ==
    [data : {<<>>, <<165>>, <<165, 3>>}, before : {0, 1, 8, 12}, bits : {1, 7, 12}]

\* BitReader::read_bits(before) on a new reader and then read_bits(bits):
\* the outcome of the second call and the reader's bit counter after it
ReadBits ==
    /\ pc["c1"] = "idle"
    /\ \E in \in ReadInputs :
         \E first \in {read_bits(BitReaderNew(in.data), in.before, Checked)} :
           \E second \in {read_bits(first.r, in.bits, Checked)} :
             Called("read_bits", in,
                    [first |-> first.status,
                     status |-> IF first.status = "ok" THEN second.status ELSE first.status,
                     value |-> second.value,
                     bits_in_buffer |-> second.r.bits_in_buffer])

\* Points added to a TimeSeriesBlock in any order, timestamps repeated
AddedPoints == SeqsUpTo({U64Of(1), U64Of(2)} \X {U64Zero, F64One}, MaxPoints)

\* TimeSeriesBlock::add_point for each point, then compress: the points in
\* the order they are given to the encoder, and the bytes written
CompressBlock ==
    /\ pc["c1"] = "idle"
    /\ \E points \in AddedPoints : \E block \in {compress(points, Checked)} :
          Called("compress", points,
                 [status |-> IF block.panicked THEN "panic" ELSE "ok",
                  sorted_points |-> SortByTs(points),
                  bytes |-> block.bytes])

\* GorillaEncoder over `points` and close(), then GorillaDecoder::new and
\* decode_all over the bytes written (counted up to MaxPoints + 2 points)
DecodeAll ==
    /\ pc["c1"] = "idle"
    /\ \E points \in GorillaInputs :
         \E block \in {compress(points, Checked)} :
         \E decoder \in {GorillaDecoderNew(SubSeq(block.bytes, 5, Len(block.bytes)), Checked)} :
           Called("decode_all", points,
                  IF block.panicked THEN [status |-> "panic", points |-> <<>>, bytes |-> <<>>]
                  ELSE IF decoder.status # "ok"
                  THEN [status |-> decoder.status, points |-> <<>>, bytes |-> block.bytes]
                  ELSE Only({ [status |-> all.status, points |-> all.points,
                               bytes |-> block.bytes]
                              : all \in {decode_all(decoder, <<>>, MaxPoints + 1, Checked)} }))

\* TimeSeriesBlock::new() without add_point, compress, then decompress of the
\* bytes compress returned
EmptyBlockRoundTrip ==
    /\ pc["c1"] = "idle"
    /\ \E points \in { <<>> } : \E block \in {compress(points, Checked)} :
           Called("empty_block", points,
                  [compressed |-> block,
                   decompressed |-> IF block.panicked
                                    THEN [status |-> "panic", points |-> <<>>]
                                    ELSE decompress(block.bytes, Checked)])

LibNext ==
    \/ GorillaRoundTrip
    \/ BitIoRoundTrip
    \/ SSTableRoundTrip
    \/ WalLoad
    \/ SeriesKeyIdentity
    \/ QueryStore
    \/ Connection
    \/ Decompress
    \/ DodRoundTrip
    \/ XorRoundTrip
    \/ ReadBits
    \/ CompressBlock
    \/ DecodeAll
    \/ EmptyBlockRoundTrip

LibSpec == Init /\ [][LibNext]_vars

(***************************************************************************)
(* The store started on a directory that already holds SSTable files, some *)
(* of them damaged.  The files are in the layout SSTable::open reads: the  *)
(* series count, the index entries, then the payloads the entries point    *)
(* to.  The flush thread stays asleep.                                     *)
(***************************************************************************)
MaxFiles == 2

\* The images SSTable::open accepts, and those it returns Err for
ParsingFiles == {TableImages.good, TableImages.cut, TableImages.badblock}
UnparsableFiles == {TableImages.short, TableImages.truncated, TableImages.badjson}

DirInputs == SeqsUpTo(ParsingFiles \cup UnparsableFiles, MaxFiles)

DiskInit ==
    /\ build \in {"debug", "release"}
    /\ up = FALSE
    /\ sstFiles \in DirInputs
    /\ walFile = <<>> /\ walBuf = <<>>
    /\ memtable = EmptyMap /\ sstables = <<>>
    /\ memLock = "free" /\ poisoned = FALSE
    /\ flushPc = "sleep" /\ flushSst = None /\ lastFlush = "none"
    /\ pc = [c \in Clients |-> "idle"]
    /\ arg = [c \in Clients |-> NoArg]
    /\ res = [c \in Clients |-> NoResult]
    /\ ackLog = <<>> /\ walLog = <<>> /\ walBufLog = <<>> /\ flushed = <<>>
    /\ nWrites = 0 /\ nQueries = 0 /\ nCrashes = 0 /\ nIoErrors = 0

DiskNext ==
    \/ Open
    \/ \E c \in Clients :
          \/ WriteAppend(c)
          \/ WriteInsert(c)
          \/ QueryMem(c)
          \/ QuerySst(c)
          \/ QueryReturn(c)

DiskSpec == DiskInit /\ [][DiskNext]_vars

(***************************************************************************)
(* The store with a flush thread that keeps running: the loop of db.rs     *)
(* wakes up every 5 seconds, so whenever the thread can take a step it     *)
(* eventually takes one.                                                   *)
(***************************************************************************)
\* The flush thread can take a step: it is inside a cycle, or it is asleep
\* with the lock free and the threshold reached
FlushCanStep ==
    /\ up
    /\ \/ flushPc \in {"create", "push", "clear"}
       \/ /\ flushPc = "sleep" /\ memLock = "free" /\ ~poisoned
          /\ total_points(memtable) >= Threshold

\* A step of the flush thread: every one of its steps moves flushPc
FlushThread ==
    /\ FlushCanStep
    /\ flushPc' \in {"sleep", "create", "push", "clear", "dead"}
    /\ flushPc' # flushPc

LiveSpec == Spec /\ WF_flushPc(FlushThread)

(***************************************************************************)
(* The store with get_stats among the calls of its clients.                *)
(***************************************************************************)
LockNext ==
    \/ \E c \in Clients :
          \/ WriteAppend(c)
          \/ WriteAppendFail(c)
          \/ WriteInsert(c)
          \/ LockPoisoned(c)
          \/ QueryMem(c)
          \/ QuerySst(c)
          \/ QueryReturn(c)
          \/ StatsLock(c)
          \/ StatsReadDir(c)
          \/ StatsReadDirErr(c)
          \/ StatsMem(c)
          \/ StatsPoisoned(c)
    \/ FlushBegin
    \/ FlushCreate
    \/ FlushCreatePanic
    \/ FlushCreateErr
    \/ FlushPush
    \/ FlushClear

LockSpec == Init /\ [][LockNext]_vars

(***************************************************************************)
(* The writers with the insert loop of write_points taken one push at a    *)
(* time, under the guard of the MemTable mutex, beside the queries.        *)
(***************************************************************************)
\* write_point / write_points: self.memtable.lock().unwrap()
InsertLock(c) ==
    /\ up /\ pc[c] = "w_insert" /\ MemFree(memLock) /\ ~poisoned
    /\ memLock' = c
    /\ pc' = [pc EXCEPT ![c] = "w_push"]
    /\ UNCHANGED <<build, up, walFile, walBuf, sstFiles, memtable, sstables, poisoned,
                   flushPc, flushSst, lastFlush, arg, res, ackLog, walLog, walBufLog,
                   flushed, nWrites, nQueries, nCrashes, nIoErrors>>

\* One mem.entry(series_key).or_insert_with(Vec::new).push(point)
InsertPush(c) ==
    /\ up /\ pc[c] = "w_push" /\ arg[c].points # <<>>
    /\ memtable' = MemInsertAll(memtable, arg[c].measurement, <<Head(arg[c].points)>>)
    /\ ackLog' = ackLog \o Acked(arg[c].measurement, <<Head(arg[c].points)>>)
    /\ arg' = [arg EXCEPT ![c].points = Tail(arg[c].points)]
    /\ UNCHANGED <<build, up, walFile, walBuf, sstFiles, sstables, memLock, poisoned,
                   flushPc, flushSst, lastFlush, pc, res, walLog, walBufLog, flushed,
                   nWrites, nQueries, nCrashes, nIoErrors>>

\* The loop is over: Ok(()) is returned and the guard is dropped
InsertReturn(c) ==
    /\ up /\ pc[c] = "w_push" /\ arg[c].points = <<>>
    /\ memLock' = "free"
    /\ pc' = [pc EXCEPT ![c] = "idle"]
    /\ arg' = [arg EXCEPT ![c] = NoArg]
    /\ UNCHANGED <<build, up, walFile, walBuf, sstFiles, memtable, sstables, poisoned,
                   flushPc, flushSst, lastFlush, res, ackLog, walLog, walBufLog, flushed,
                   nWrites, nQueries, nCrashes, nIoErrors>>

BatchNext ==
    \E c \in Clients :
        \/ WriteAppend(c)
        \/ WriteAppendFail(c)
        \/ InsertLock(c)
        \/ InsertPush(c)
        \/ InsertReturn(c)
        \/ QueryMem(c)
        \/ QuerySst(c)
        \/ QueryReturn(c)

BatchSpec == Init /\ [][BatchNext]_vars

(***************************************************************************)
(* The WAL under concurrent callers (src/wal.rs): every operation takes    *)
(* the mutex around the BufWriter for its whole body and issues one        *)
(* write_all per item of the record before the final flush.                *)
(***************************************************************************)
MaxWalOps == 3

\* The write_all calls of the tag loop of append_data_point
RECURSIVE TagWrites(_, _)
TagWrites(tags, order) ==
    IF order = <<>> THEN <<>>
    ELSE LET key == Head(order)
         IN  << u32_to_be_bytes(Len(key)), key,
                u32_to_be_bytes(Len(tags[key])), tags[key] >>
             \o TagWrites(tags, Tail(order))

\* The write_all calls of the field loop of append_data_point
RECURSIVE FieldWrites(_, _)
FieldWrites(fields, order) ==
    IF order = <<>> THEN <<>>
    ELSE LET key == Head(order)
         IN  << u32_to_be_bytes(Len(key)), key, u64_to_be_bytes(fields[key]) >>
             \o FieldWrites(fields, Tail(order))

\* The write_all calls append_data_point issues for one point, in order
RecordWrites(point, tagOrder, fieldOrder) ==
    << u64_to_be_bytes(point.timestamp),
       u32_to_be_bytes(Cardinality(DOMAIN point.tags)) >>
    \o TagWrites(point.tags, tagOrder)
    \o << u32_to_be_bytes(Cardinality(DOMAIN point.fields)) >>
    \o FieldWrites(point.fields, fieldOrder)

\* The write_all calls batch_append_data_points issues for `points`
RECURSIVE BatchWrites(_)
BatchWrites(points) ==
    IF points = <<>> THEN { <<>> }
    ELSE { w \o rest :
             w \in { RecordWrites(Head(points), to, fo) :
                       to \in Orders(DOMAIN Head(points).tags),
                       fo \in Orders(DOMAIN Head(points).fields) },
             rest \in BatchWrites(Tail(points)) }

RECURSIVE Flatten(_)
Flatten(writes) == IF writes = <<>> THEN <<>> ELSE Head(writes) \o Flatten(Tail(writes))

\* The WAL calls the threads make
WalOps ==
    UNION { { [op |-> "append_data_point", writes |-> w] : w \in BatchWrites(<<p>>) } :
              p \in PointInputs }
    \cup { [op |-> "batch_append_data_points", writes |-> w] : w \in BatchWrites(BatchInput) }
    \cup { [op |-> "clear", writes |-> <<>>] }

\* The positions at which a thread holds the guard of self.file.lock()
WalLocked == {"wal_write", "clear_set_len", "clear_flush"}
WalHolders == { c \in Clients : pc[c] \in WalLocked }

\* A lock that lets every caller in
NoWalMutex(holders) == TRUE

\* self.file.lock() returns once no other thread holds the guard
WalFree(holders) == holders = {}

WalFrame ==
    UNCHANGED <<build, up, sstFiles, memtable, sstables, memLock, poisoned, flushPc,
                flushSst, lastFlush, res, ackLog, walLog, walBufLog, flushed,
                nQueries, nCrashes>>

\* A thread calls one of the WAL operations and reaches self.file.lock()
WalCall(c) ==
    /\ pc[c] = "idle" /\ nWrites < MaxWalOps
    /\ \E o \in WalOps : arg' = [arg EXCEPT ![c] = o]
    /\ pc' = [pc EXCEPT ![c] = "wal_lock"]
    /\ nWrites' = nWrites + 1
    /\ UNCHANGED <<walFile, walBuf, nIoErrors>>
    /\ WalFrame

\* self.file.lock().unwrap() returns the guard
WalLock(c) ==
    /\ pc[c] = "wal_lock"
    /\ WalFree(WalHolders)
    /\ pc' = [pc EXCEPT ![c] = IF arg[c].op = "clear" THEN "clear_set_len" ELSE "wal_write"]
    /\ UNCHANGED <<walFile, walBuf, arg, nWrites, nIoErrors>>
    /\ WalFrame

\* One file.write_all(..) of append_data_point / batch_append_data_points
WalWriteAll(c) ==
    /\ pc[c] = "wal_write" /\ arg[c].writes # <<>>
    /\ walBuf' = walBuf \o Head(arg[c].writes)
    /\ arg' = [arg EXCEPT ![c].writes = Tail(arg[c].writes)]
    /\ UNCHANGED <<walFile, pc, nWrites, nIoErrors>>
    /\ WalFrame

\* file.flush()? and the return of append_data_point / batch_append_data_points,
\* which drops the guard
WalFlush(c) ==
    /\ pc[c] = "wal_write" /\ arg[c].writes = <<>>
    /\ \E ok \in {TRUE} \cup (IF nIoErrors < MaxIoErrors THEN {FALSE} ELSE {}) :
         \E w \in {wal_append(walFile, walBuf, <<>>, ok)} :
            /\ walFile' = w.file
            /\ walBuf' = w.buf
            /\ nIoErrors' = IF ok THEN nIoErrors ELSE nIoErrors + 1
    /\ pc' = [pc EXCEPT ![c] = "idle"]
    /\ arg' = [arg EXCEPT ![c] = NoArg]
    /\ UNCHANGED nWrites
    /\ WalFrame

\* clear: file.get_mut().set_len(0)? and the seek to the start
WalClearSetLen(c) ==
    /\ pc[c] = "clear_set_len"
    /\ walFile' = <<>>
    /\ pc' = [pc EXCEPT ![c] = "clear_flush"]
    /\ UNCHANGED <<walBuf, arg, nWrites, nIoErrors>>
    /\ WalFrame

\* clear: file.flush()? and the return, which drops the guard
WalClearFlush(c) ==
    /\ pc[c] = "clear_flush"
    /\ \E ok \in {TRUE} \cup (IF nIoErrors < MaxIoErrors THEN {FALSE} ELSE {}) :
         \E w \in {wal_append(walFile, walBuf, <<>>, ok)} :
            /\ walFile' = w.file
            /\ walBuf' = w.buf
            /\ nIoErrors' = IF ok THEN nIoErrors ELSE nIoErrors + 1
    /\ pc' = [pc EXCEPT ![c] = "idle"]
    /\ arg' = [arg EXCEPT ![c] = NoArg]
    /\ UNCHANGED nWrites
    /\ WalFrame

WalNext ==
    \E c \in Clients :
        \/ WalCall(c)
        \/ WalLock(c)
        \/ WalWriteAll(c)
        \/ WalFlush(c)
        \/ WalClearSetLen(c)
        \/ WalClearFlush(c)

WalSpec == Init /\ [][WalNext]_vars

(***************************************************************************)
(* Properties.                                                             *)
(***************************************************************************)
\* Some encoding of the records of `points` lies in the file
ContainsRecords(file, points) ==
    \E bytes \in BatchEncodings(points) :
        \E off \in 0..(Len(file) - Len(bytes)) : Slice(file, off, Len(bytes)) = bytes

\* The filter selects the written point: its series matches and its timestamp
\* is within the time range
Covers(filter, w) ==
    /\ SeriesMatches(SeriesKey(w.measurement, w.point.tags), filter)
    /\ InRange(w.point.timestamp, filter)

\* The fields of the written point the filter asks for
WantedFields(filter, w) ==
    IF filter.fields = <<>> THEN DOMAIN w.point.fields
    ELSE DOMAIN w.point.fields \cap { filter.fields[i] : i \in 1..Len(filter.fields) }

\* The entries a result holds for the series and field at the timestamp
ResultList(r, key, f) ==
    IF r.status = "ok" /\ key \in DOMAIN r.value /\ f \in DOMAIN r.value[key]
    THEN r.value[key][f] ELSE <<>>
ValuesAt(r, key, f, ts) ==
    LET list == ResultList(r, key, f)
    IN  SelectSeq([i \in 1..Len(list) |-> IF list[i][1] = ts THEN <<list[i][2]>> ELSE <<>>],
                  LAMBDA x : x # <<>>)

WriteKey(w) == SeriesKey(w.measurement, w.point.tags)

\* The result is Ok and holds the written point's value of field f
Returns(r, w, f) ==
    /\ r.status = "ok"
    /\ <<w.point.fields[f]>> \in
          { ValuesAt(r, WriteKey(w), f, w.point.timestamp)[i] :
              i \in 1..Len(ValuesAt(r, WriteKey(w), f, w.point.timestamp)) }

\* C1: a write whose WAL append happened while the flush was building the
\* SSTable (and before the flush truncated the WAL) is still in the WAL file
\* after Wal::clear has run.
C1_AppendDuringFlushSurvivesClear ==
    [][(up /\ up' /\ flushPc = "clear" /\ flushPc' = "sleep")
         => \A c \in Clients :
               (pc[c] = "w_insert" /\ arg[c].appended /\ arg[c].in_flush)
                  => ContainsRecords(walFile', arg[c].points)]_vars

\* C2: after a crash before any flush and the reopen, a query returns, for
\* every write acknowledged before it started and selected by its filter, the
\* written value of every requested field.
C2_RecoveredPointQueryable ==
    \A c \in Clients :
        (pc[c] = "q_done" /\ nCrashes > 0 /\ sstFiles = <<>>)
           => \A i \in 1..arg[c].acked :
                 Covers(arg[c].filter, ackLog[i])
                    => \A f \in WantedFields(arg[c].filter, ackLog[i]) :
                          \/ Returns(res[c], ackLog[i], f)
                          \/ \E j \in (i + 1)..Len(ackLog) :
                                /\ WriteKey(ackLog[j]) = WriteKey(ackLog[i])
                                /\ ackLog[j].point.timestamp = ackLog[i].point.timestamp
                                /\ f \in DOMAIN ackLog[j].point.fields

\* C3: load_points decodes from the WAL file exactly the sequence of points
\* whose records were appended to it.
C3_WalRoundTrip ==
    LET records == load_points(walFile)
    IN  /\ Len(records) = Len(walLog)
        /\ \A i \in 1..Len(walLog) : records[i].point = walLog[i]

\* C4: in a store that has not restarted, a query returns Ok and holds every
\* point that a flush had moved to an SSTable before the query started and
\* that its filter selects, and the MemTable holds no point when the flush
\* has published the SSTable.
C4_FlushedPointsQueryable ==
    /\ \A c \in Clients :
          (pc[c] = "q_done" /\ nCrashes = 0)
             => \A i \in 1..arg[c].flushed :
                   Covers(arg[c].filter, flushed[i])
                      => /\ res[c].status = "ok"
                         /\ \A f \in WantedFields(arg[c].filter, flushed[i]) :
                               ValuesAt(res[c], WriteKey(flushed[i]), f,
                                        flushed[i].point.timestamp) # <<>>
    /\ (up /\ flushPc = "clear") => total_points(memtable) = 0

\* C5: in a store that has not restarted, a query holds every (series, field,
\* timestamp) written by a write acknowledged before the query started and
\* selected by its filter exactly once.
C5_ExactlyOnceAcrossFlush ==
    \A c \in Clients :
        (pc[c] = "q_done" /\ nCrashes = 0)
           => \A i \in 1..arg[c].acked :
                 Covers(arg[c].filter, ackLog[i])
                    => \A f \in WantedFields(arg[c].filter, ackLog[i]) :
                          /\ res[c].status = "ok"
                          /\ Len(ValuesAt(res[c], WriteKey(ackLog[i]), f,
                                          ackLog[i].point.timestamp)) = 1

\* The last write of the same (series, field, timestamp) as write i among the
\* writes acknowledged before the query of c started
IsLastWrite(c, i, f) ==
    \A j \in (i + 1)..arg[c].acked :
        ~ /\ WriteKey(ackLog[j]) = WriteKey(ackLog[i])
          /\ ackLog[j].point.timestamp = ackLog[i].point.timestamp
          /\ f \in DOMAIN ackLog[j].point.fields

\* C6: a query that returns Ok holds, for a (series, field, timestamp) written
\* more than once before it started, exactly the value of the last write.
C6_LastWriteWins ==
    \A c \in Clients :
        (pc[c] = "q_done" /\ res[c].status = "ok" /\ Len(ackLog) = arg[c].acked)
           => \A i \in 1..arg[c].acked :
                 Covers(arg[c].filter, ackLog[i])
                    => \A f \in WantedFields(arg[c].filter, ackLog[i]) :
                          IsLastWrite(c, i, f)
                             => \A v \in { ValuesAt(res[c], WriteKey(ackLog[i]), f,
                                                    ackLog[i].point.timestamp)[n][1] :
                                            n \in 1..Len(ValuesAt(res[c], WriteKey(ackLog[i]),
                                                         f, ackLog[i].point.timestamp)) } :
                                   v = ackLog[i].point.fields[f]

StrictlyAscending(list) ==
    \A i \in 1..(Len(list) - 1) : U64Lt(list[i][1], list[i + 1][1])

\* C7: in every Ok result of query, the list of every (series, field) is
\* ascending by timestamp and holds no timestamp twice.
C7_ResultSortedNoDuplicates ==
    \A c \in Clients :
        (pc[c] = "q_done" /\ res[c].status = "ok")
           => \A k \in DOMAIN res[c].value : \A f \in DOMAIN res[c].value[k] :
                 StrictlyAscending(res[c].value[k][f])

\* A query returned a list of two points for a series of which the MemTable
\* scan had found more: two of them had the same timestamp.
C7_Witness ==
    \E c \in Clients :
        /\ pc[c] = "q_done" /\ res[c].status = "ok"
        /\ \E k \in DOMAIN res[c].value : \E f \in DOMAIN res[c].value[k] :
              /\ Len(res[c].value[k][f]) >= 2
              /\ k \in DOMAIN arg[c].partial /\ f \in DOMAIN arg[c].partial[k]
              /\ Len(arg[c].partial[k][f]) > Len(res[c].value[k][f])

\* C8: a step that shortens the WAL file is the flush thread's Wal::clear, and
\* when it runs the SSTable file created in this cycle is complete on disk and
\* its SSTable is the last of the shared set.
C8_ClearOnlyAfterCreateAndPush ==
    [][(up /\ up' /\ Len(walFile') < Len(walFile))
         => /\ flushPc = "clear"
            /\ flushSst = None
            /\ sstables # <<>>
            /\ sstables[Len(sstables)].file = Len(sstFiles)
            /\ SSTableOpen(sstFiles[Len(sstFiles)]).ok]_vars

\* The flush thread has truncated a WAL that held records, and the SSTable is
\* in the shared set.
C8_Witness ==
    /\ up /\ lastFlush = "ok" /\ flushPc = "sleep"
    /\ walFile = <<>> /\ flushed # <<>> /\ sstables # <<>>

\* C9: a step that puts points into the MemTable of the running store is the
\* second half of a write whose WAL append has returned Ok with the records in
\* the WAL file.
C9_AppendBeforeInsert ==
    [][(up /\ up' /\ total_points(memtable') > total_points(memtable))
         => \E c \in Clients :
               /\ pc[c] = "w_insert" /\ pc'[c] = "idle"
               /\ arg[c].appended
               /\ memtable' = MemInsertAll(memtable, arg[c].measurement, arg[c].points)]_vars

\* A write has returned Ok: its points are in the MemTable and its records in
\* the WAL file.
C9_Witness ==
    /\ up /\ nCrashes = 0 /\ ackLog # <<>> /\ total_points(memtable) > 0
    /\ ContainsRecords(walFile, <<ackLog[Len(ackLog)].point>>)

\* C10: when SSTable::create returns Err, the flush cycle ends with the WAL,
\* the MemTable and the shared SSTable set as they were and the MemTable lock
\* free, so that the next cycle starts from the same MemTable.
C10_CreateFailureLeavesStateUntouched ==
    [][(up /\ up' /\ flushPc = "create" /\ flushPc' = "sleep")
         => /\ walFile' = walFile /\ walBuf' = walBuf
            /\ memtable' = memtable
            /\ sstables' = sstables
            /\ memLock' = "free" /\ ~poisoned']_vars

\* After a failed cycle, a later cycle has created the SSTable from the
\* MemTable the failed one left.
C10_Witness ==
    /\ up /\ lastFlush = "err" /\ flushPc = "push"
    /\ total_points(memtable) >= Threshold

\* C11: a write_point whose WAL append fails is over with that step (the Err
\* is returned by `?`): no client is left inside a write, the MemTable is as it
\* was and nothing is acknowledged.
C11_AppendFailureReturnsErr ==
    [][(up /\ up' /\ Len(walBufLog') = Len(walBufLog) + 1)
         => /\ nWrites' = nWrites + 1
            /\ pc' = pc /\ arg' = arg
            /\ memtable' = memtable
            /\ ackLog' = ackLog]_vars

\* The append of the only write_point so far has failed: its record is left
\* in the writer's buffer and the MemTable is empty.
C11_Witness ==
    /\ up /\ nWrites = 1 /\ Len(walBufLog) = 1 /\ walBuf # <<>>
    /\ total_points(memtable) = 0 /\ ackLog = <<>>
    /\ \A c \in Clients : pc[c] = "idle"

\* C12: no record of a batch whose batch_append_data_points returned Err gets
\* into the WAL file: while the points of the failed batch are what the
\* writer's buffer holds, a step that changes the file either empties it
\* (Wal::clear) or adds the records of the write appended in that step and
\* nothing else.
C12_FailedBatchNeverInWal ==
    [][(up /\ up' /\ walBufLog = BatchInput /\ walLog' # walLog)
         => \/ walLog' = <<>> /\ walFile' = <<>>
            \/ \E c \in Clients :
                  /\ pc[c] = "idle" /\ pc'[c] = "w_insert"
                  /\ walLog' = walLog \o arg'[c].points]_vars

\* C13: decompress(compress(points)) is Ok and returns the points as they
\* were given, timestamps and value bits.
C13_GorillaRoundTrip ==
    (pc["c1"] = "returned" /\ arg["c1"].op = "gorilla")
       => /\ res["c1"].status = "ok"
          /\ res["c1"].points = arg["c1"].input

\* C14: reading back the widths that were written returns Ok with the low n
\* bits of each value, in order.
C14_BitIoRoundTrip ==
    (pc["c1"] = "returned" /\ arg["c1"].op = "bitio")
       => /\ res["c1"].status = "ok"
          /\ res["c1"].values =
                [i \in 1..Len(arg["c1"].input) |->
                    [b \in 1..64 |-> IF b <= arg["c1"].input[i][2]
                                     THEN U64Bits(arg["c1"].input[i][1])[b] ELSE 0]]

\* C15: in the file SSTable::create wrote, the bytes at every index entry's
\* (offset, length) are that series' payload as it was written, before the
\* index was written over the reserved space.
C15_IndexLeavesPayloads ==
    (pc["c1"] = "returned" /\ arg["c1"].op = "sstable" /\ res["c1"].status # "panic")
       => \A k \in DOMAIN res["c1"].created.series_index :
             Slice(res["c1"].created.bytes, res["c1"].created.series_index[k][1],
                   res["c1"].created.series_index[k][2])
             = Slice(res["c1"].created.unindexed, res["c1"].created.series_index[k][1],
                     res["c1"].created.series_index[k][2])

\* C16: the query of the reopened SSTable is Ok and returns, for every series
\* and field of the snapshot, the (timestamp, value) pairs the snapshot holds.
C16_SSTableRoundTrip ==
    (pc["c1"] = "returned" /\ arg["c1"].op = "sstable")
       => /\ res["c1"].status = "ok"
          /\ LET want == MemQuery(arg["c1"].input, FullRange)
                 got == res["c1"].results
             IN  /\ DOMAIN got = DOMAIN want
                 /\ \A k \in DOMAIN want :
                       /\ DOMAIN got[k] = DOMAIN want[k]
                       /\ \A f \in DOMAIN want[k] :
                             /\ Len(got[k][f]) = Len(want[k][f])
                             /\ {got[k][f][i] : i \in DOMAIN got[k][f]}
                                = {want[k][f][i] : i \in DOMAIN want[k][f]}

\* The points load_points returned, in file order
LoadedPoints == [i \in 1..Len(res["c1"].records) |-> res["c1"].records[i].point]

\* C17: load_points on a WAL cut inside its last record is Ok with exactly
\* the points written before that record.
C17_TruncatedTailDropped ==
    (pc["c1"] = "returned" /\ arg["c1"].op = "wal_load" /\ arg["c1"].input.kind = "truncated")
       => /\ res["c1"].status = "ok"
          /\ LoadedPoints = SubSeq(arg["c1"].input.points, 1, Len(arg["c1"].input.points) - 1)

RECURSIVE PairsRead(_, _, _)
\* The map of the pairs whose strings are UTF-8; text says the value is a string
PairsRead(pairs, text, m) ==
    IF pairs = <<>> THEN m
    ELSE PairsRead(Tail(pairs), text,
                   IF IsUtf8(Head(pairs)[1]) /\ (text => IsUtf8(Head(pairs)[2]))
                   THEN MapInsert(m, Head(pairs)[1], Head(pairs)[2]) ELSE m)

\* C18: load_points returns every record of the file with the pairs whose
\* strings are UTF-8, the others left out.
C18_BadUtf8SkipsOnePair ==
    (pc["c1"] = "returned" /\ arg["c1"].op = "wal_load" /\ arg["c1"].input.kind = "utf8")
       => LoadedPoints =
             [i \in 1..Len(arg["c1"].input.records) |->
                 DataPoint(arg["c1"].input.records[i].timestamp,
                           PairsRead(arg["c1"].input.records[i].tags, TRUE, EmptyMap),
                           PairsRead(arg["c1"].input.records[i].fields, FALSE, EmptyMap))]

\* C19: SimpleTSDB::open returns a running store that holds exactly the
\* SSTable files of the directory that parse, each mapped and with the index
\* its file holds, and none of the files that do not parse.
C19_OpenSkipsUnparsableFiles ==
    [][(~up /\ up')
         => /\ {sstables'[i].file : i \in 1..Len(sstables')}
                 = {i \in 1..Len(sstFiles) : sstFiles[i] \in ParsingFiles}
            /\ Len(sstables') = Cardinality({i \in 1..Len(sstFiles) : sstFiles[i] \in ParsingFiles})
            /\ \A i \in 1..Len(sstables') :
                  /\ sstables'[i].mmap
                  /\ DOMAIN sstables'[i].series_index
                        = {SeriesKey(StrM, NoTags), SeriesKey(StrM, TagsHA)}
            /\ memLock' = "free" /\ ~poisoned']_vars

C19_Witness ==
    /\ up /\ Len(sstFiles) = 2 /\ Len(sstables) = 1
    /\ sstFiles[1] \in UnparsableFiles
    /\ sstFiles[2] = TableImages.good
    /\ sstables[1].file = 2

\* C20: a query of the store started on such a directory returns Ok, with
\* every series and field the MemTable contributed.
C20_UnreadableSeriesSkipped ==
    \A c \in Clients :
       (pc[c] = "q_done")
          => /\ res[c].status = "ok"
             /\ \A k \in DOMAIN arg[c].partial :
                   /\ k \in DOMAIN res[c].value
                   /\ DOMAIN arg[c].partial[k] \subseteq DOMAIN res[c].value[k]

\* C21: two keys built from the same measurement and the same set of tag
\* pairs, in whatever order, are equal, hash alike and name one MemTable
\* series; two keys that differ in the measurement or in a pair are not equal.
C21_SeriesKeyIdentity ==
    (pc["c1"] = "returned" /\ arg["c1"].op = "series_key")
       => LET a == arg["c1"].input.a
              b == arg["c1"].input.b
              same == /\ a.measurement = b.measurement
                      /\ {a.pairs[i] : i \in 1..Len(a.pairs)} = {b.pairs[i] : i \in 1..Len(b.pairs)}
          IN  /\ same => /\ res["c1"].eq
                         /\ res["c1"].hash_a = res["c1"].hash_b
                         /\ res["c1"].series = 1
              /\ ~same => /\ ~res["c1"].eq
                          /\ res["c1"].series = 2

C21_Witness ==
    /\ pc["c1"] = "returned" /\ arg["c1"].op = "series_key"
    /\ arg["c1"].input.a.pairs = <<<<StrH, StrA>>, <<StrR, StrV>>>>
    /\ arg["c1"].input.b.pairs = <<<<StrR, StrV>>, <<StrH, StrA>>>>
    /\ arg["c1"].input.a.measurement = arg["c1"].input.b.measurement
    /\ res["c1"].eq /\ res["c1"].series = 1

C23_OnlyMatchingSeries ==
    (pc["c1"] = "returned" /\ arg["c1"].op = "query" /\ res["c1"].status = "ok")
       => \A k \in DOMAIN res["c1"].value :
             /\ arg["c1"].input.filter.measurement \in {None, Some(k.measurement)}
             /\ \A t \in DOMAIN arg["c1"].input.filter.tags :
                   /\ t \in DOMAIN k.tags
                   /\ k.tags[t] = arg["c1"].input.filter.tags[t]

\* A query for measurement m and tag h=a on a store whose MemTable holds the
\* series m without tags and whose SSTable holds m without tags and m with h=a
C23_Witness ==
    /\ pc["c1"] = "returned" /\ arg["c1"].op = "query" /\ res["c1"].status = "ok"
    /\ arg["c1"].input.filter.measurement = Some(StrM)
    /\ arg["c1"].input.filter.tags = TagsHA
    /\ arg["c1"].input.files # <<>>
    /\ \E i \in 1..Len(arg["c1"].input.writes) :
          /\ arg["c1"].input.writes[i][1] = StrM
          /\ arg["c1"].input.writes[i][2].tags = NoTags
          /\ arg["c1"].input.writes[i][2].fields # NoFields
    /\ DOMAIN res["c1"].value = {SeriesKey(StrM, TagsHA)}

\* The (timestamp, value) pairs of a list with start <= timestamp <= end
WithinRange(list, range) ==
    SelectSeq(list, LAMBDA p : U64Le(range[1], p[1]) /\ U64Le(p[1], range[2]))

\* The points a query result holds for a series and a field
PointsOf(result, k, f) ==
    IF k \in DOMAIN result /\ f \in DOMAIN result[k] THEN result[k][f] ELSE <<>>

\* C24: a query returns, for every series and field, exactly the points with
\* start <= timestamp <= end among those the same query returns over the whole
\* time range; on a store without SSTables these are the written points: a
\* written point of a matching series is returned if and only if its
\* timestamp lies in the range, both ends included.
C24_RangeInclusive ==
    (pc["c1"] = "returned" /\ arg["c1"].op = "query" /\ res["c1"].status = "ok")
       => LET value == res["c1"].value
              full == res["c1"].full
              range == arg["c1"].input.filter.time_range
              writes == arg["c1"].input.writes
          IN  /\ DOMAIN value \subseteq DOMAIN full
              /\ \A k \in DOMAIN value : DOMAIN value[k] \subseteq DOMAIN full[k]
              /\ \A k \in DOMAIN full : \A f \in DOMAIN full[k] :
                    PointsOf(value, k, f) = WithinRange(full[k][f], range)
              /\ arg["c1"].input.files = <<>>
                 => \A i \in 1..Len(writes) : \A f \in DOMAIN writes[i][2].fields :
                       LET k == SeriesKey(writes[i][1], writes[i][2].tags)
                           ts == writes[i][2].timestamp
                       IN  k \in DOMAIN full
                           => ((U64Le(range[1], ts) /\ U64Le(ts, range[2]))
                                 <=> \E j \in 1..Len(PointsOf(value, k, f)) :
                                        PointsOf(value, k, f)[j][1] = ts)

\* A query for the range (1, 2) that returns the point written at 1 and the
\* point written at 2
C24_Witness ==
    /\ pc["c1"] = "returned" /\ arg["c1"].op = "query" /\ res["c1"].status = "ok"
    /\ arg["c1"].input.filter.time_range = <<U64Of(1), U64Of(2)>>
    /\ arg["c1"].input.files = <<>>
    /\ SeriesKey(StrM, NoTags) \in DOMAIN res["c1"].value
    /\ SeriesKey(StrM, TagsHA) \in DOMAIN res["c1"].value
    /\ res["c1"].value[SeriesKey(StrM, NoTags)][StrV][1][1] = U64Of(1)
    /\ res["c1"].value[SeriesKey(StrM, TagsHA)][StrV][1][1] = U64Of(2)

\* The kinds of command line that fail to parse
ParseFailures == {"timestamp", "value", "tokens", "unknown", "empty"}

BeginsWithError(reply) ==
    /\ reply.rows = None
    /\ Len(reply.text) >= 6
    /\ SubSeq(reply.text, 1, 6) = <<69, 82, 82, 79, 82, 58>>     \* "ERROR:"

\* C25: on a connection whose database calls succeed, a line that fails to
\* parse (non-numeric timestamp or value, wrong number of tokens, unknown
\* command, empty line) is answered with a reply that begins with "ERROR:",
\* and a well-formed line that follows it gets the reply it gets on its own,
\* which is no error; the connection stays open to the end of the stream.
C25_ParseErrorKeepsConnection ==
    (pc["c1"] = "returned" /\ arg["c1"].op = "connection" /\ arg["c1"].input.db_err = 0)
       => LET lines == arg["c1"].input.lines
              replies == res["c1"].replies
          IN  \A i \in 1..Len(lines) :
                 (/\ lines[i].kind \in ParseFailures
                  /\ \A j \in 1..Len(lines) : lines[j].kind # "utf8")
                    => /\ res["c1"].end = "eof"
                       /\ Len(replies) = Len(lines)
                       /\ BeginsWithError(replies[i])
                       /\ (i < Len(lines) /\ lines[i + 1].kind = "ok")
                             => /\ replies[i + 1] = process_command(lines[i + 1].text, TRUE).reply
                                /\ ~BeginsWithError(replies[i + 1])

\* C26: decompress of fewer than 4 bytes is an error; of a longer input it is
\* a block of exactly count points when decoding the bytes after the prefix
\* produces count points, and an error otherwise.
C26_CountPrefixChecked ==
    (pc["c1"] = "returned" /\ arg["c1"].op = "decompress")
       => LET data == arg["c1"].input
              decoded == res["c1"].decoded
              count == u32_from_le_bytes(SubSeq(data, 1, 4))
          IN  IF Len(data) >= 4 /\ decoded.status = "ok" /\ Len(decoded.points) = count
              THEN /\ res["c1"].status = "ok"
                   /\ Len(res["c1"].points) = count
                   /\ res["c1"].points = decoded.points
              ELSE res["c1"].status = "err"

\* C27: while the flush thread is between locking the MemTable for its
\* snapshot and truncating the WAL, a write_point that has appended to the
\* WAL can take the MemTable lock and insert, without waiting for the flush.
C27_WriteDuringFlush ==
    \A c \in Clients :
       (up /\ ~poisoned /\ flushPc \in {"create", "push", "clear"} /\ pc[c] = "w_insert")
          => ENABLED WriteInsert(c)

\* C28: a non-zero delta-of-delta written by the encoder in its 7-bit, 9-bit,
\* 12-bit or 32-bit bucket is read back by the decoder as the same value.
C28_DodRoundTrip ==
    (pc["c1"] = "returned" /\ arg["c1"].op = "dod")
       => /\ res["c1"].status = "ok"
          /\ res["c1"].dod = arg["c1"].input

\* C29: a non-zero XOR of two values' bits written by the encoder (prefix,
\* 5-bit leading zeros, 6-bit significant bit count, significant bits) is
\* rebuilt by the decoder as the same 64 bits.
C29_XorRoundTrip ==
    (pc["c1"] = "returned" /\ arg["c1"].op = "xor")
       => /\ res["c1"].status = "ok"
          /\ res["c1"].value = arg["c1"].input

\* The bits of a byte sequence in the order read_bits hands them out
RECURSIVE StreamBits(_)
StreamBits(data) ==
    IF data = <<>> THEN <<>>
    ELSE [i \in 1..8 |-> (Head(data) \div 2^(i - 1)) % 2] \o StreamBits(Tail(data))

\* C30: when the byte source holds fewer bits than read_bits(n) asks for, the
\* call signals the end of the stream if no bit is left, and otherwise
\* returns the bits that are left; the reader's bit counter stays within
\* 0..64 (it does not go below zero).
C30_EndOfStream ==
    (/\ pc["c1"] = "returned" /\ arg["c1"].op = "read_bits"
     /\ res["c1"].first = "ok"
     /\ 8 * Len(arg["c1"].input.data) - arg["c1"].input.before < arg["c1"].input.bits)
       => LET in == arg["c1"].input
              left == SubSeq(StreamBits(in.data), in.before + 1, 8 * Len(in.data))
          IN  /\ res["c1"].bits_in_buffer \in 0..64
              /\ IF left = <<>> THEN res["c1"].status = "eof"
                 ELSE /\ res["c1"].status = "ok"
                      /\ res["c1"].value = [i \in 1..64 |-> IF i <= Len(left) THEN left[i] ELSE 0]

\* C31: the block compress writes holds the added points in ascending
\* timestamp order, one point per timestamp, the one added last: its count
\* prefix is the number of different timestamps, and the points encoded are
\* strictly ascending, each with the value of the last point added with its
\* timestamp.
C31_SortedLastWins ==
    (pc["c1"] = "returned" /\ arg["c1"].op = "compress" /\ res["c1"].status = "ok")
       => LET added == arg["c1"].input
              encoded == res["c1"].sorted_points
              last(ts) == CHOOSE i \in 1..Len(added) :
                             /\ added[i][1] = ts
                             /\ \A j \in (i + 1)..Len(added) : added[j][1] # ts
          IN  /\ u32_from_le_bytes(SubSeq(res["c1"].bytes, 1, 4))
                    = Cardinality({ added[i][1] : i \in 1..Len(added) })
              /\ \A i \in 1..(Len(encoded) - 1) : U64Lt(encoded[i][1], encoded[i + 1][1])
              /\ \A i \in 1..Len(encoded) : encoded[i] = added[last(encoded[i][1])]

\* C32: when Wal::clear returns Ok the WAL file is empty and load_points
\* returns no record; an append that succeeds on the cleared file leaves
\* exactly the records it appended, from offset zero.
C32_ClearEmptiesLog ==
    /\ [][(up /\ up' /\ flushPc = "clear" /\ flushPc' = "sleep" /\ nIoErrors' = nIoErrors)
            => (walFile' = <<>> /\ load_points(walFile') = <<>>)]_vars
    /\ [][(up /\ up' /\ lastFlush = "ok" /\ walFile = <<>> /\ walFile' # <<>>)
            => \E c \in Clients :
                  /\ pc[c] = "idle" /\ pc'[c] = "w_insert"
                  /\ walFile' \in BatchEncodings(arg'[c].points)]_vars

\* bytes is a concatenation of whole records of the points the threads write
RECURSIVE WholeRecords(_)
WholeRecords(bytes) ==
    \/ bytes = <<>>
    \/ \E p \in PointInputs \cup {BatchInput[1], BatchInput[2]} :
         \E e \in RecordEncodings(p) :
            /\ Len(e) <= Len(bytes)
            /\ SubSeq(bytes, 1, Len(e)) = e
            /\ WholeRecords(SubSeq(bytes, Len(e) + 1, Len(bytes)))

\* C33: with threads calling append_data_point, batch_append_data_points and
\* clear concurrently, the file is always a concatenation of whole records,
\* and so is the byte stream of the BufWriter once the thread holding the
\* mutex has issued the rest of its write_all calls: no record is interleaved
\* with another, and a clear never leaves part of a record.
C33_WalWholeRecords ==
    /\ WholeRecords(walFile)
    /\ \A c \in WalHolders :
          WholeRecords(walBuf \o (IF arg[c].op = "clear" THEN <<>> ELSE Flatten(arg[c].writes)))
    /\ WalHolders = {} => WholeRecords(walBuf)

\* One thread is part-way through a record while the other waits for the
\* mutex, and the file already holds a record
C33_Witness ==
    /\ pc["c1"] = "wal_write" /\ pc["c2"] = "wal_lock"
    /\ arg["c1"].writes # <<>> /\ walBuf # <<>> /\ ~WholeRecords(walBuf)
    /\ walFile # <<>>
    /\ C33_WalWholeRecords

\* The threads of the running store and its three mutexes
Threads == Clients \cup {"flush"}
Mutexes == {"memtable", "sstables", "wal"}

\* Thread t holds the guard of mutex m
Holds(t, m) ==
    IF t = "flush" THEN m = "memtable" /\ memLock = "flush"
    ELSE m = "sstables" /\ t \in SstHolders

\* Thread t stands at the lock() call of mutex m
Waits(t, m) ==
    IF t = "flush"
    THEN \/ m = "memtable" /\ flushPc = "sleep"
         \/ m = "sstables" /\ flushPc = "push"
         \/ m = "wal" /\ flushPc = "clear"
    ELSE \/ m = "memtable" /\ pc[t] \in {"w_insert", "s_mem"}
         \/ m = "sstables" /\ pc[t] = "q_sst"

\* C34: no reachable state has two threads each holding one of the mutexes
\* while standing at the lock() of a mutex the other holds.
C34_NoDeadlock ==
    \A t1 \in Threads : \A t2 \in Threads \ {t1} :
       \A m1 \in Mutexes : \A m2 \in Mutexes \ {m1} :
          ~(up /\ Holds(t1, m1) /\ Waits(t1, m2) /\ Holds(t2, m2) /\ Waits(t2, m1))

\* Two points of one series with one timestamp that differ in their fields
SameSlot(p, q) == p.timestamp = q.timestamp /\ p.tags = q.tags /\ p.fields # q.fields

\* The MemTable a replay of the points `log` in their order builds
Replayed(log) == MemInsertAll(EmptyMap, StrM, log)

\* C35: while the process runs, before any flush or I/O error, two written points of
\* one series with one timestamp and different values lie in the WAL in the
\* order in which they were inserted into the MemTable, and a query of the
\* MemTable returns what it returns from a MemTable rebuilt in WAL order.
C35_WalOrderIsInsertOrder ==
    (up /\ nCrashes = 0 /\ nIoErrors = 0 /\ lastFlush = "none" /\ flushPc = "sleep"
        /\ \A c \in Clients : pc[c] = "idle")
    => /\ \A i \in 1..Len(ackLog) : \A j \in (i + 1)..Len(ackLog) :
             SameSlot(ackLog[i].point, ackLog[j].point)
             => \E a \in 1..Len(walLog) : \E b \in (a + 1)..Len(walLog) :
                   walLog[a] = ackLog[i].point /\ walLog[b] = ackLog[j].point
       /\ \A filter \in QueryInputs :
             SortAndDedup(MemQuery(memtable, filter))
                = SortAndDedup(MemQuery(Replayed(walLog), filter))

\* C36: decode_all over the encoding of n points returns n points: the zero
\* bits that pad the final byte are not decoded as further points.
C36_DecoderStopsAtEnd ==
    (pc["c1"] = "returned" /\ arg["c1"].op = "decode_all"
        /\ res["c1"].status \notin {"panic"})
    => /\ res["c1"].status = "ok"
       /\ Len(res["c1"].points) = Len(arg["c1"].input)

\* C37: compress of a block without points returns a block whose count prefix
\* is 0, and decompress of that block returns Ok with no points.
C37_EmptyBlockRoundTrip ==
    (pc["c1"] = "returned" /\ arg["c1"].op = "empty_block")
    => /\ ~res["c1"].compressed.panicked
       /\ Len(res["c1"].compressed.bytes) >= 4
       /\ u32_from_le_bytes(SubSeq(res["c1"].compressed.bytes, 1, 4)) = 0
       /\ res["c1"].decompressed.status = "ok"
       /\ res["c1"].decompressed.points = <<>>

\* The number of times the point (ts, value) is listed for field v of the
\* series m without tags in the result of a MemTable scan
Seen(partial, ts, value) ==
    LET key == SeriesKey(StrM, NoTags)
    IN  IF key \in DOMAIN partial /\ StrV \in DOMAIN partial[key]
        THEN Occurrences(partial[key][StrV], <<ts, value>>)
        ELSE 0

\* C38: the MemTable scan of a query over the whole time range lists the two
\* points of a write_points batch equally often: it never sees one point of
\* a batch without the other.
C38_BatchAtomic ==
    \A c \in Clients :
       (pc[c] = "q_sst" /\ arg[c].filter.time_range = <<U64Zero, U64Max>>)
       => Seen(arg[c].partial, BatchInput[1].timestamp, BatchInput[1].fields[StrV])
             = Seen(arg[c].partial, BatchInput[2].timestamp, BatchInput[2].fields[StrV])

\* A query scanned the MemTable and saw both points of a batch, while the
\* other thread has appended a second batch and stands at the MemTable lock
C38_Witness ==
    /\ pc["c1"] = "q_sst" /\ arg["c1"].filter.time_range = <<U64Zero, U64Max>>
    /\ Seen(arg["c1"].partial, BatchInput[1].timestamp, BatchInput[1].fields[StrV]) = 1
    /\ Seen(arg["c1"].partial, BatchInput[2].timestamp, BatchInput[2].fields[StrV]) = 1
    /\ pc["c2"] = "w_insert" /\ arg["c2"].op = "write_points"

\* The files SSTable::create writes for the MemTable `mem`
FlushImages(mem) == { SSTableCreate(mem, ord, Checked).bytes : ord \in CreateOrders(mem) }

\* The acknowledged write `entry` is one of the points of `mem`
InMemtable(mem, entry) ==
    LET key == SeriesKey(entry.measurement, entry.point.tags)
    IN  key \in DOMAIN mem /\ \E i \in 1..Len(mem[key]) : mem[key][i] = entry.point

\* C39: in a process that has not been stopped, the MemTable the flush is
\* about to clear is the one whose points SSTable::create wrote into the
\* file being published, and every point inserted into the MemTable is in
\* the MemTable or was in it when a flush published its SSTable, also when
\* writes arrive during the flush.
C39_FlushRemovesWhatItWrote ==
    (up /\ nCrashes = 0)
    => /\ flushPc = "push" => sstFiles[flushSst[1].file] \in FlushImages(memtable)
       /\ Len(sstables) * Threshold <= Len(flushed)
       /\ \A i \in 1..Len(ackLog) :
             \/ InMemtable(memtable, ackLog[i])
             \/ \E j \in 1..Len(flushed) : flushed[j] = ackLog[i]

\* A write arrived while the flush was between SSTable::create and the push:
\* its record is in the WAL and the thread stands at the MemTable lock
C39_Witness ==
    /\ up /\ nCrashes = 0 /\ flushPc = "push"
    /\ sstFiles[flushSst[1].file] \in FlushImages(memtable)
    /\ \E c \in Clients : pc[c] = "w_insert" /\ arg[c].in_flush

====
